---------------------------- MODULE Spec2Model ----------------------------
(***************************************************************************)
(* Conversation engine of car-helper-bot (src/main.py, src/database.py,    *)
(* src/cars_database.py, src/ai_module.py).                                *)
(*                                                                         *)
(* Texts are sequences of Unicode code points, so that strip(), lower(),   *)
(* the keyword tests and the recommendation extractor are computed as the  *)
(* code computes them.  The Python dictionaries user_state, user_info,     *)
(* filter_info, ai_sessions and help_messages are functions over the keys; *)
(* a missing key holds None.  The SQLite tables are sequences of rows.     *)
(***************************************************************************)
EXTENDS Integers, Sequences, FiniteSets, TLC

\* None as a value of user_state
None == "None"

\* an optional value: Nothing is Python's None (or a missing key), Some(x) a value
Nothing == <<>>

Some(x) == <<x>>

\* d.get(key) of a dict d held as a record
DictGet(d, key) == IF key \in DOMAIN d THEN Some(d[key]) ELSE Nothing

\* the record d with d[key] = value
DictSet(d, key, value) ==
    [k \in DOMAIN d \cup {key} |-> IF k = key THEN value ELSE d[k]]

EmptyDict == [k \in {} |-> 0]

(***************************************************************************)
(* Generic sequence helpers.                                               *)
(***************************************************************************)
SetMax(S) == CHOOSE x \in S : \A y \in S : y <= x

SetMin(S) == CHOOSE x \in S : \A y \in S : x <= y

Range(s) == {s[i] : i \in DOMAIN s}

RECURSIVE Concat(_)
Concat(ss) == IF ss = <<>> THEN <<>> ELSE Head(ss) \o Concat(Tail(ss))

(***************************************************************************)
(* Python str operations on code-point sequences.                          *)
(***************************************************************************)
\* str.isspace() for the characters str.strip() removes
IsSpace(c) == c \in {9, 10, 11, 12, 13, 28, 29, 30, 31, 32, 133, 160}

\* str.lower() of one character: A-Z, the Cyrillic capitals and IO
LowerChar(c) ==
    IF c >= 65 /\ c <= 90 THEN c + 32
    ELSE IF c >= 1040 /\ c <= 1071 THEN c + 32
    ELSE IF c = 1025 THEN 1105
    ELSE c

lower(s) == [i \in 1..Len(s) |-> LowerChar(s[i])]

\* str.casefold() agrees with str.lower() on the alphabet of the model
casefold(s) == lower(s)

\* s.strip(chars): the longest slice that neither starts nor ends in chars
strip_chars(s, chars) ==
    LET keep == {i \in 1..Len(s) : s[i] \notin chars}
    IN  IF keep = {} THEN <<>> ELSE SubSeq(s, SetMin(keep), SetMax(keep))

strip(s) ==
    LET keep == {i \in 1..Len(s) : ~IsSpace(s[i])}
    IN  IF keep = {} THEN <<>> ELSE SubSeq(s, SetMin(keep), SetMax(keep))

\* 0-based offsets at which sub occurs in s
Occurrences(s, sub) ==
    {i \in 0..(Len(s) - Len(sub)) : SubSeq(s, i + 1, i + Len(sub)) = sub}

\* s.find(sub): the first occurrence
rfind_first(s, sub) ==
    LET found == Occurrences(s, sub)
    IN  IF found = {} THEN -1 ELSE SetMin(found)

\* s.rfind(sub)
rfind(s, sub) ==
    LET found == Occurrences(s, sub)
    IN  IF found = {} THEN -1 ELSE SetMax(found)

\* sub in s
contains(s, sub) == Occurrences(s, sub) # {}

\* s.replace(a, b) for single characters a, b
replace_char(s, a, b) == [i \in 1..Len(s) |-> IF s[i] = a THEN b ELSE s[i]]

\* s.split(sep) for a single character sep
RECURSIVE split(_, _)
split(s, sep) ==
    LET at == {i \in 1..Len(s) : s[i] = sep}
    IN  IF at = {} THEN <<s>>
        ELSE <<SubSeq(s, 1, SetMin(at) - 1)>>
                 \o split(SubSeq(s, SetMin(at) + 1, Len(s)), sep)

\* lexicographic order of two texts by code point (SQLite BINARY collation)
RECURSIVE TextLess(_, _)
TextLess(a, b) ==
    IF b = <<>> THEN FALSE
    ELSE IF a = <<>> THEN TRUE
    ELSE IF a[1] # b[1] THEN a[1] < b[1]
    ELSE TextLess(Tail(a), Tail(b))

(***************************************************************************)
(* Constants of src/main.py and src/ai_module.py.                          *)
(***************************************************************************)
\* YES_ANSWERS: "да", "ага", "конечно", "давай", "yes", "y"
YES_ANSWERS ==
    {<<1076, 1072>>,
     <<1072, 1075, 1072>>,
     <<1082, 1086, 1085, 1077, 1095, 1085, 1086>>,
     <<1076, 1072, 1074, 1072, 1081>>,
     <<121, 101, 115>>,
     <<121>>}

\* NO_ANSWERS: "нет", "неа", "no", "n", "не надо"
NO_ANSWERS ==
    {<<1085, 1077, 1090>>,
     <<1085, 1077, 1072>>,
     <<110, 111>>,
     <<110>>,
     <<1085, 1077, 32, 1085, 1072, 1076, 1086>>}

\* STOP_WORDS: "стоп", "выход", "меню"
STOP_WORDS ==
    {<<1089, 1090, 1086, 1087>>,
     <<1074, 1099, 1093, 1086, 1076>>,
     <<1084, 1077, 1085, 1102>>}

\* "пропустить"
SKIP_WORD == <<1087, 1088, 1086, 1087, 1091, 1089, 1090, 1080, 1090, 1100>>

\* "рекомендую:"
MARKER == <<1088, 1077, 1082, 1086, 1084, 1077, 1085, 1076, 1091, 1102, 58>>

\* the sentinels of match_cars_from_response: "нет данных", "нет", "none"
NO_DATA_TOKENS ==
    {<<1085, 1077, 1090, 32, 1076, 1072, 1085, 1085, 1099, 1093>>,
     <<1085, 1077, 1090>>,
     <<110, 111, 110, 101>>}

\* deque(maxlen=10)
HISTORY_MAXLEN == 10

\* len(matches) >= 5
MAX_MATCHES == 5

\* price - 2_000_000, price + 2_000_000
PRICE_BAND == 2000000

\* "AI долго думает. Попробуй задать вопрос ещё раз чуть позже."
TIMEOUT_FALLBACK ==
    <<65, 73, 32, 1076, 1086, 1083, 1075, 1086, 32, 1076, 1091, 1084, 1072, 1077, 1090,
      46, 32, 1055, 1086, 1087, 1088, 1086, 1073, 1091, 1081, 32, 1079, 1072, 1076,
      1072, 1090, 1100, 32, 1074, 1086, 1087, 1088, 1086, 1089, 32, 1077, 1097, 1105,
      32, 1088, 1072, 1079, 32, 1095, 1091, 1090, 1100, 32, 1087, 1086, 1079, 1078,
      1077, 46>>

\* "Не удалось получить ответ от ИИ. Попробуй ещё раз позже."
ERROR_FALLBACK ==
    <<1053, 1077, 32, 1091, 1076, 1072, 1083, 1086, 1089, 1100, 32, 1087, 1086, 1083,
      1091, 1095, 1080, 1090, 1100, 32, 1086, 1090, 1074, 1077, 1090, 32, 1086, 1090,
      32, 1048, 1048, 46, 32, 1055, 1086, 1087, 1088, 1086, 1073, 1091, 1081, 32, 1077,
      1097, 1105, 32, 1088, 1072, 1079, 32, 1087, 1086, 1079, 1078, 1077, 46>>

\* "AI долго думает. Попробуй переформулировать вопрос или спроси чуть позже."
OLLAMA_TIMEOUT_TEXT ==
    <<65, 73, 32, 1076, 1086, 1083, 1075, 1086, 32, 1076, 1091, 1084, 1072, 1077, 1090,
      46, 32, 1055, 1086, 1087, 1088, 1086, 1073, 1091, 1081, 32, 1087, 1077, 1088,
      1077, 1092, 1086, 1088, 1084, 1091, 1083, 1080, 1088, 1086, 1074, 1072, 1090,
      1100, 32, 1074, 1086, 1087, 1088, 1086, 1089, 32, 1080, 1083, 1080, 32, 1089,
      1087, 1088, 1086, 1089, 1080, 32, 1095, 1091, 1090, 1100, 32, 1087, 1086, 1079,
      1078, 1077, 46>>

\* "Ошибка при обращении к AI: refused": ask_ollama's text for an exception
\* whose str() is "refused"
OLLAMA_ERROR_TEXT ==
    <<1054, 1096, 1080, 1073, 1082, 1072, 32, 1087, 1088, 1080, 32, 1086, 1073, 1088,
      1072, 1097, 1077, 1085, 1080, 1080, 32, 1082, 32, 65, 73, 58, 32, 114, 101, 102,
      117, 115, 101, 100>>

\* the texts ask_ollama returns when the request has failed
OLLAMA_FAILURE_TEXTS == {OLLAMA_TIMEOUT_TEXT, OLLAMA_ERROR_TEXT}


(***************************************************************************)
(* The stores the bot reads.  cars is a part of the seed of init_cars_db;  *)
(* description, image and specs are only copied into captions and are      *)
(* kept as short strings.                                                  *)
(***************************************************************************)
\* the categories of the menu (main.py, lines 102-110)
\*   sedan: "Легковой"
\*   crossover: "Кроссовер"
\*   truck: "Грузовой"
\*   electric: "Электромобили"
\*   hybrid: "Гибриды"
CATEGORY ==
    [sedan |->
         <<1051, 1077, 1075, 1082, 1086, 1074, 1086, 1081>>,
     crossover |->
         <<1050, 1088, 1086, 1089, 1089, 1086, 1074, 1077, 1088>>,
     truck |->
         <<1043, 1088, 1091, 1079, 1086, 1074, 1086, 1081>>,
     electric |->
         <<1069, 1083, 1077, 1082, 1090, 1088, 1086, 1084, 1086, 1073,
           1080, 1083, 1080>>,
     hybrid |->
         <<1043, 1080, 1073, 1088, 1080, 1076, 1099>>]

\* rows of table cars in insertion order:
\*   Toyota Camry 50, 12 000 000 ₸, is_discounted = 1
\*   Hyundai Elantra, 10 500 000 ₸, is_discounted = 0
\*   Toyota RAV4, 17 200 000 ₸, is_discounted = 0
cars_table ==
    <<[category |-> CATEGORY.sedan,
       brand |-> <<84, 111, 121, 111, 116, 97>>,
       model |-> <<67, 97, 109, 114, 121, 32, 53, 48>>,
       price |-> <<49, 50, 32, 48, 48, 48, 32, 48, 48, 48, 32, 8376>>,
       description |-> "desc_camry", image |-> "camry.jpg", specs |-> "specs_camry",
       is_discounted |-> 1],
      [category |-> CATEGORY.sedan,
       brand |-> <<72, 121, 117, 110, 100, 97, 105>>,
       model |-> <<69, 108, 97, 110, 116, 114, 97>>,
       price |-> <<49, 48, 32, 53, 48, 48, 32, 48, 48, 48, 32, 8376>>,
       description |-> "desc_elantra", image |-> "elantra.jpg", specs |-> "specs_elantra",
       is_discounted |-> 0],
      [category |-> CATEGORY.crossover,
       brand |-> <<84, 111, 121, 111, 116, 97>>,
       model |-> <<82, 65, 86, 52>>,
       price |-> <<49, 55, 32, 50, 48, 48, 32, 48, 48, 48, 32, 8376>>,
       description |-> "desc_rav4", image |-> "rav4.jpg", specs |-> "specs_rav4",
       is_discounted |-> 0]>>

\* rows of table help_categories (help.db)
help_categories_table ==
    <<[id |-> 1, key |-> <<99, 114, 101, 100, 105, 116>>, label |-> "label_credit",
       button |-> "button_credit", sort_index |-> 0]>>

\* rows of table help_questions (help.db), in id order:
\*   "Как взять кредит" -> "Через банк."
\*   "Кредит" -> "Да, до 7 лет."
help_questions_table ==
    <<[id |-> 1, category_id |-> 1,
       question |-> <<1050, 1072, 1082, 32, 1074, 1079, 1103, 1090, 1100, 32, 1082, 1088, 1077, 1076, 1080, 1090>>,
       answer |-> <<1063, 1077, 1088, 1077, 1079, 32, 1073, 1072, 1085, 1082, 46>>,
       sort_index |-> 0],
      [id |-> 2, category_id |-> 1,
       question |-> <<1050, 1088, 1077, 1076, 1080, 1090>>,
       answer |-> <<1044, 1072, 44, 32, 1076, 1086, 32, 55, 32, 1083, 1077, 1090, 46>>,
       sort_index |-> 0]>>

(***************************************************************************)
(* The environment: message texts users send, replies the model gives.     *)
(***************************************************************************)
\* texts the users send
\*   stop: "стоп"
\*   yes: " Да"
\*   no: "нет"
\*   question: "седан"
\*   canned: "кредит"
\*   skip: "Пропустить"
\*   price: "хочу машину за 12000000"
INPUT ==
    [stop |->
         <<1089, 1090, 1086, 1087>>,
     yes |->
         <<32, 1044, 1072>>,
     no |->
         <<1085, 1077, 1090>>,
     question |->
         <<1089, 1077, 1076, 1072, 1085>>,
     canned |->
         <<1082, 1088, 1077, 1076, 1080, 1090>>,
     skip |->
         <<1055, 1088, 1086, 1087, 1091, 1089, 1090, 1080, 1090, 1100>>,
     price |->
         <<1093, 1086, 1095, 1091, 32, 1084, 1072, 1096, 1080, 1085, 1091,
           32, 1079, 1072, 32, 49, 50, 48, 48, 48, 48, 48, 48>>]

\* texts the language model returns
\*   two: "Неплохой выбор. Рекомендую: Camry 50, Elantra"
\*   no_data: "Рекомендую: нет данных"
REPLY ==
    [two |->
         <<1053, 1077, 1087, 1083, 1086, 1093, 1086, 1081, 32, 1074, 1099,
           1073, 1086, 1088, 46, 32, 1056, 1077, 1082, 1086, 1084, 1077,
           1085, 1076, 1091, 1102, 58, 32, 67, 97, 109, 114, 121, 32, 53,
           48, 44, 32, 69, 108, 97, 110, 116, 114, 97>>,
     no_data |->
         <<1056, 1077, 1082, 1086, 1084, 1077, 1085, 1076, 1091, 1102, 58,
           32, 1085, 1077, 1090, 32, 1076, 1072, 1085, 1085, 1099, 1093>>]

\* further texts of the language model that end with a list of tokens
\*   reversed: "Рекомендую: Elantra, Camry 50"
\*   brand: "Рекомендую: Toyota, Elantra."
\*   repeated: "Рекомендую: Camry, Toyota Camry 50, нет, Lada"
LIST_REPLY ==
    [reversed |->
         <<1056, 1077, 1082, 1086, 1084, 1077, 1085, 1076, 1091, 1102,
           58, 32, 69, 108, 97, 110, 116, 114, 97, 44, 32, 67, 97, 109,
           114, 121, 32, 53, 48>>,
     brand |->
         <<1056, 1077, 1082, 1086, 1084, 1077, 1085, 1076, 1091, 1102,
           58, 32, 84, 111, 121, 111, 116, 97, 44, 32, 69, 108, 97, 110,
           116, 114, 97, 46>>,
     repeated |->
         <<1056, 1077, 1082, 1086, 1084, 1077, 1085, 1076, 1091, 1102,
           58, 32, 67, 97, 109, 114, 121, 44, 32, 84, 111, 121, 111,
           116, 97, 32, 67, 97, 109, 114, 121, 32, 53, 48, 44, 32, 1085,
           1077, 1090, 44, 32, 76, 97, 100, 97>>]

\* texts without the marker that the language model may go on with
\*   same_line: " для города"
\*   next_line: "\nУдачи!"
\*   period: "."
TRAILING ==
    [same_line |->
         <<32, 1076, 1083, 1103, 32, 1075, 1086, 1088, 1086, 1076, 1072>>,
     next_line |->
         <<10, 1059, 1076, 1072, 1095, 1080, 33>>,
     period |->
         <<46>>]

\* further texts sent while the bot waits for a price
\*   boundary: "14000000 или 9"
\*   huge: "99999999999999999999"
PRICE_INPUT ==
    [boundary |->
         <<49, 52, 48, 48, 48, 48, 48, 48, 32, 1080, 1083, 1080, 32, 57>>,
     huge |->
         <<57, 57, 57, 57, 57, 57, 57, 57, 57, 57, 57, 57, 57, 57, 57,
           57, 57, 57, 57, 57>>]

\* texts sent while the bot collects the filter
\*   brand: "Toyota"
\*   model: "camry"
FILTER_INPUT ==
    [brand |-> <<84, 111, 121, 111, 116, 97>>,
     model |-> <<99, 97, 109, 114, 121>>]

\* texts a new user answers the three questions with
\*   name: "Дана"
\*   age: "25"
\*   city: "Астана"
ONBOARDING_INPUT ==
    [name |-> <<1044, 1072, 1085, 1072>>,
     age |-> <<50, 53>>,
     city |-> <<1040, 1089, 1090, 1072, 1085, 1072>>]

\* cancellation keywords as a user may type them
\*   exit: " Выход "
\*   menu: "МЕНЮ"
STOP_INPUT ==
    [exit |-> <<32, 1042, 1099, 1093, 1086, 1076, 32>>,
     menu |-> <<1052, 1045, 1053, 1070>>]

(***************************************************************************)
(* SQLite expressions used by the queries.                                 *)
(***************************************************************************)
\* LOWER(x) and LIKE fold the case of ASCII letters only
sql_lower(s) ==
    [i \in 1..Len(s) |-> IF s[i] >= 65 /\ s[i] <= 90 THEN s[i] + 32 ELSE s[i]]

\* x LIKE '%' || q || '%' for a q without the wildcards % and _
sql_like_contains(x, q) == contains(sql_lower(x), sql_lower(q))

\* REPLACE(x, c, '') for a single character c
RECURSIVE sql_remove(_, _)
sql_remove(s, c) ==
    IF s = <<>> THEN <<>>
    ELSE IF Head(s) = c THEN sql_remove(Tail(s), c)
    ELSE <<Head(s)>> \o sql_remove(Tail(s), c)

IsDigit(c) == c >= 48 /\ c <= 57

\* the value of a run of decimal digits
RECURSIVE DigitsValue(_)
DigitsValue(ds) ==
    IF ds = <<>> THEN 0
    ELSE 10 * DigitsValue(SubSeq(ds, 1, Len(ds) - 1)) + (ds[Len(ds)] - 48)

\* the longest prefix of s made of digits
DigitPrefix(s) ==
    LET stop == {i \in 1..Len(s) : ~IsDigit(s[i])}
    IN  IF stop = {} THEN s ELSE SubSeq(s, 1, SetMin(stop) - 1)

\* x + 0 for a text x: the number its leading digits spell, 0 without any
sql_to_number(s) == DigitsValue(DigitPrefix(s))

(***************************************************************************)
(* src/cars_database.py and the two searches of src/main.py.               *)
(***************************************************************************)
get_cars_by_category(category) ==
    SelectSeq(cars_table, LAMBDA c : c.category = category)

get_discounted_cars == SelectSeq(cars_table, LAMBDA c : c.is_discounted = 1)

\* brand and model are optional texts; None and "" add no condition
get_cars_by_filters(brand, model) ==
    SelectSeq(cars_table,
              LAMBDA c :
                  /\ (brand # Nothing /\ brand[1] # <<>>)
                         => sql_like_contains(c.brand, brand[1])
                  /\ (model # Nothing /\ model[1] # <<>>)
                         => sql_like_contains(c.model, model[1]))

CarLess(a, b) ==
    \/ TextLess(a.category, b.category)
    \/ a.category = b.category /\ TextLess(a.brand, b.brand)
    \/ a.category = b.category /\ a.brand = b.brand /\ TextLess(a.model, b.model)

\* ORDER BY category, brand, model: rows that tie keep their rowid order
RECURSIVE OrderCars(_)
OrderCars(rows) ==
    IF rows = <<>> THEN <<>>
    ELSE LET first == SetMin({i \in 1..Len(rows) :
                                 \A j \in 1..Len(rows) : ~CarLess(rows[j], rows[i])})
         IN  <<rows[first]>>
                 \o OrderCars(SubSeq(rows, 1, first - 1)
                                  \o SubSeq(rows, first + 1, Len(rows)))

get_all_cars == OrderCars(cars_table)

search_car_by_name(query) ==
    SelectSeq(cars_table,
              LAMBDA c :
                  \/ sql_like_contains(c.model, query)
                  \/ sql_like_contains(c.brand \o <<32>> \o c.model, query))

\* 8376 is the tenge sign, 32 the space
\* the digits of 2^63 - 1 - PRICE_BAND = 9223372036852775807
SQLITE_MAX_PRICE ==
    <<57, 50, 50, 51, 51, 55, 50, 48, 51, 54, 56, 53, 50, 55, 55, 53, 56, 48, 55>>

\* sqlite3 binds price - 2_000_000 and price + 2_000_000 as 64-bit integers
\* and raises OverflowError for a larger one; ds are the digits of price
sqlite_binds(ds) ==
    LET nonzero == {i \in 1..Len(ds) : ds[i] # 48}
        digits == IF nonzero = {} THEN <<>> ELSE SubSeq(ds, SetMin(nonzero), Len(ds))
    IN  \/ Len(digits) < Len(SQLITE_MAX_PRICE)
        \/ Len(digits) = Len(SQLITE_MAX_PRICE) /\ ~TextLess(SQLITE_MAX_PRICE, digits)

search_car_by_price(price) ==
    SelectSeq(cars_table,
              LAMBDA c :
                  LET n == sql_to_number(sql_remove(sql_remove(c.price, 8376), 32))
                  IN  n >= price - PRICE_BAND /\ n <= price + PRICE_BAND)

\* re.findall(r"\d+", text): the digit runs of text, in order
RECURSIVE find_digit_runs(_)
find_digit_runs(s) ==
    LET ds == {i \in 1..Len(s) : IsDigit(s[i])}
    IN  IF ds = {} THEN <<>>
        ELSE LET from == SetMin(ds)
                 run == DigitPrefix(SubSeq(s, from, Len(s)))
             IN  <<run>> \o find_digit_runs(SubSeq(s, from + Len(run) + 1, Len(s)))

(***************************************************************************)
(* src/database.py.                                                        *)
(***************************************************************************)
\* further texts get_answer is called with
\*   upper: " КРЕДИТ "
\*   part: "взять"
\*   both: "кред"
\*   blank: " \n "
\*   longer: "Как взять кредит?"
LOOKUP_INPUT ==
    [upper |->
         <<32, 1050, 1056, 1045, 1044, 1048, 1058, 32>>,
     part |->
         <<1074, 1079, 1103, 1090, 1100>>,
     both |->
         <<1082, 1088, 1077, 1076>>,
     blank |->
         <<32, 10, 32>>,
     longer |->
         <<1050, 1072, 1082, 32, 1074, 1079, 1103, 1090, 1100, 32, 1082,
          1088, 1077, 1076, 1080, 1090, 63>>]

\* (row["question"] or "").strip().casefold() of the rows get_answer reads
question_keys ==
    [i \in 1..Len(help_questions_table) |->
        casefold(strip(help_questions_table[i].question))]

\* get_answer without its first loop: the first row containing the text
get_answer_first_containing(question) ==
    LET term == strip(question)
        lookup == casefold(term)
        rows == help_questions_table
        partial == {i \in 1..Len(rows) : contains(question_keys[i], lookup)}
    IN  IF term = <<>> THEN Nothing
        ELSE IF partial # {} THEN Some(rows[SetMin(partial)])
        ELSE Nothing

\* get_answer: the first row equal to the text, else the first containing it
get_answer(question) ==
    LET term == strip(question)
        lookup == casefold(term)
        rows == help_questions_table
        exact == {i \in 1..Len(rows) : question_keys[i] = lookup}
        partial == {i \in 1..Len(rows) : contains(question_keys[i], lookup)}
    IN  IF term = <<>> THEN Nothing
        ELSE IF exact # {} THEN Some(rows[SetMin(exact)])
        ELSE IF partial # {} THEN Some(rows[SetMin(partial)])
        ELSE Nothing

\* get_user_by_chat_id: the first row of users with the chat id, or None
get_user_by_chat_id(users, chat_id) ==
    LET hit == {i \in 1..Len(users) : users[i].chat_id = chat_id}
    IN  IF hit = {} THEN Nothing ELSE Some(users[SetMin(hit)])

\* save_user: the identifier it returns
save_user_id(users, chat_id) ==
    IF get_user_by_chat_id(users, chat_id) # Nothing
    THEN get_user_by_chat_id(users, chat_id)[1].id
    ELSE Len(users) + 1

\* save_user without the SELECT: every call inserts a row
save_user_rows_insert(users, name, age, city, chat_id) ==
    Append(users, [id |-> Len(users) + 1, name |-> name, age |-> age,
                   city |-> city, chat_id |-> chat_id])

\* save_user: the table afterwards (UPDATE by chat_id, else INSERT)
save_user_rows(users, name, age, city, chat_id) ==
    IF get_user_by_chat_id(users, chat_id) # Nothing
    THEN [i \in 1..Len(users) |->
             IF users[i].chat_id = chat_id
             THEN [users[i] EXCEPT !.name = name, !.age = age, !.city = city]
             ELSE users[i]]
    ELSE Append(users, [id |-> Len(users) + 1, name |-> name, age |-> age,
                        city |-> city, chat_id |-> chat_id])

get_help_sections ==
    [i \in 1..Len(help_categories_table) |->
        [key |-> help_categories_table[i].key,
         label |-> help_categories_table[i].label,
         button |-> help_categories_table[i].button,
         questions |-> SelectSeq(help_questions_table,
                                 LAMBDA q : q.category_id = help_categories_table[i].id)]]

get_help_section_by_key(key) ==
    LET hit == {i \in 1..Len(get_help_sections) : get_help_sections[i].key = key}
    IN  IF key = <<>> \/ hit = {} THEN Nothing ELSE Some(get_help_sections[SetMin(hit)])

(***************************************************************************)
(* match_cars_from_response (src/main.py).                                 *)
(***************************************************************************)
\* the list catalog of match_cars_from_response
extractor_catalog(cars) ==
    [i \in 1..Len(cars) |->
        [category |-> cars[i].category, brand |-> cars[i].brand,
         model |-> cars[i].model, price |-> cars[i].price,
         description |-> cars[i].description, image |-> cars[i].image,
         specs |-> cars[i].specs,
         full_name |-> lower(cars[i].brand \o <<32>> \o cars[i].model)]]

\* tokens = [token.strip(" .") for token in ....replace("\n", " ").split(",")]
\* without the empty ones; 44 is the comma, 46 the full stop
recommendation_tokens(recommendations) ==
    LET parts == split(replace_char(recommendations, 10, 32), 44)
    IN  SelectSeq([i \in 1..Len(parts) |-> strip_chars(parts[i], {32, 46})],
                  LAMBDA t : t # <<>>)

\* a match in either direction: the token in the name or the name in the token
token_matches_either(car, token_lower) ==
    contains(car.full_name, token_lower) \/ contains(token_lower, car.full_name)

token_matches(car, token_lower) ==
    car.full_name = token_lower \/ contains(car.full_name, token_lower)

\* the loop over catalog for one token, from entry i on
RECURSIVE scan_catalog(_, _, _, _)
\* the loop without the set seen
scan_catalog_no_seen(catalog, token_lower, i, matches) ==
    IF i > Len(catalog) THEN matches
    ELSE IF token_matches(catalog[i], token_lower)
    THEN LET added == Append(matches, catalog[i])
         IN  IF Len(added) >= MAX_MATCHES THEN added
             ELSE scan_catalog(catalog, token_lower, i + 1, added)
    ELSE scan_catalog(catalog, token_lower, i + 1, matches)

scan_catalog(catalog, token_lower, i, matches) ==
    IF i > Len(catalog) THEN matches
    ELSE IF token_matches(catalog[i], token_lower)
    THEN LET seen == {<<m.brand, m.model>> : m \in Range(matches)}
             added == IF <<catalog[i].brand, catalog[i].model>> \notin seen
                      THEN Append(matches, catalog[i]) ELSE matches
         IN  IF Len(added) >= MAX_MATCHES THEN added
             ELSE scan_catalog(catalog, token_lower, i + 1, added)
    ELSE scan_catalog(catalog, token_lower, i + 1, matches)

\* the loop over tokens
RECURSIVE scan_tokens(_, _, _)
scan_tokens(catalog, tokens, matches) ==
    IF tokens = <<>> THEN matches
    ELSE IF lower(Head(tokens)) \in NO_DATA_TOKENS
    THEN scan_tokens(catalog, Tail(tokens), matches)
    ELSE LET next == scan_catalog(catalog, lower(Head(tokens)), 1, matches)
         IN  IF Len(next) >= MAX_MATCHES THEN next
             ELSE scan_tokens(catalog, Tail(tokens), next)

\* the records are collected in the order of the catalog
match_cars_catalog_order(response, cars) ==
    LET idx == rfind(lower(response), MARKER)
        recommendations == strip(SubSeq(response, idx + Len(MARKER) + 1, Len(response)))
        tokens == recommendation_tokens(recommendations)
    IN  IF idx = -1 THEN <<>>
        ELSE SelectSeq(extractor_catalog(cars),
                       LAMBDA car : \E i \in 1..Len(tokens) :
                                       /\ lower(tokens[i]) \notin NO_DATA_TOKENS
                                       /\ token_matches(car, lower(tokens[i])))

match_cars(response, cars) ==
    LET idx == rfind(lower(response), MARKER)
        recommendations == strip(SubSeq(response, idx + Len(MARKER) + 1, Len(response)))
        tokens == recommendation_tokens(recommendations)
    IN  IF idx = -1 THEN <<>>
        ELSE IF recommendations = <<>> THEN <<>>
        ELSE IF tokens = <<>> THEN <<>>
        ELSE scan_tokens(extractor_catalog(cars), tokens, <<>>)

\* further texts the extractor is applied to
\*   twice: "Рекомендую: Elantra. РЕКОМЕНДУЮ: Camry 50"
\*   none: "Возьми Camry 50"
\*   blank: "Рекомендую: Elantra\nрекомендую: \n"
\*   stops: "Рекомендую: . , ."
\*   longer: "Рекомендую: Toyota Camry 50 Hybrid, НЕТ, Hyundai Elantra"
\*   sentinels: "Рекомендую: НЕТ, None, Нет данных"
\*   letter: "Рекомендую: rav4, Y, toyota"
MATCH_REPLY ==
    [twice |->
         <<1056, 1077, 1082, 1086, 1084, 1077, 1085, 1076, 1091, 1102, 58,
          32, 69, 108, 97, 110, 116, 114, 97, 46, 32, 1056, 1045, 1050, 1054,
          1052, 1045, 1053, 1044, 1059, 1070, 58, 32, 67, 97, 109, 114, 121,
          32, 53, 48>>,
     none |->
         <<1042, 1086, 1079, 1100, 1084, 1080, 32, 67, 97, 109, 114, 121, 32,
          53, 48>>,
     blank |->
         <<1056, 1077, 1082, 1086, 1084, 1077, 1085, 1076, 1091, 1102, 58,
          32, 69, 108, 97, 110, 116, 114, 97, 10, 1088, 1077, 1082, 1086,
          1084, 1077, 1085, 1076, 1091, 1102, 58, 32, 10>>,
     stops |->
         <<1056, 1077, 1082, 1086, 1084, 1077, 1085, 1076, 1091, 1102, 58,
          32, 46, 32, 44, 32, 46>>,
     longer |->
         <<1056, 1077, 1082, 1086, 1084, 1077, 1085, 1076, 1091, 1102, 58,
          32, 84, 111, 121, 111, 116, 97, 32, 67, 97, 109, 114, 121, 32, 53,
          48, 32, 72, 121, 98, 114, 105, 100, 44, 32, 1053, 1045, 1058, 44,
          32, 72, 121, 117, 110, 100, 97, 105, 32, 69, 108, 97, 110, 116, 114,
          97>>,
     sentinels |->
         <<1056, 1077, 1082, 1086, 1084, 1077, 1085, 1076, 1091, 1102, 58,
          32, 1053, 1045, 1058, 44, 32, 78, 111, 110, 101, 44, 32, 1053, 1077,
          1090, 32, 1076, 1072, 1085, 1085, 1099, 1093>>,
     letter |->
         <<1056, 1077, 1082, 1086, 1084, 1077, 1085, 1076, 1091, 1102, 58,
          32, 114, 97, 118, 52, 44, 32, 89, 44, 32, 116, 111, 121, 111, 116,
          97>>]

\* rows add_car of the admin panel inserts into table cars:
\*   Toyota Corolla, 9 800 000 ₸
\*   Toyota Prado, 31 000 000 ₸
\*   Toyota Hilux, 21 500 000 ₸
\*   Toyota Prius, 14 900 000 ₸
\*   Toyota Camry 50, 11 000 000 ₸
\*   Нета V, 8 900 000 ₸
ADDED_CARS ==
    <<[category |-> CATEGORY.sedan,
       brand |-> <<84, 111, 121, 111, 116, 97>>,
       model |-> <<67, 111, 114, 111, 108, 108, 97>>,
       price |-> <<57, 32, 56, 48, 48, 32, 48, 48, 48, 32, 8376>>,
       description |-> "desc_corolla", image |-> "corolla.jpg", specs |-> "specs_corolla",
       is_discounted |-> 0],
      [category |-> CATEGORY.crossover,
       brand |-> <<84, 111, 121, 111, 116, 97>>,
       model |-> <<80, 114, 97, 100, 111>>,
       price |-> <<51, 49, 32, 48, 48, 48, 32, 48, 48, 48, 32, 8376>>,
       description |-> "desc_prado", image |-> "prado.jpg", specs |-> "specs_prado",
       is_discounted |-> 0],
      [category |-> CATEGORY.truck,
       brand |-> <<84, 111, 121, 111, 116, 97>>,
       model |-> <<72, 105, 108, 117, 120>>,
       price |-> <<50, 49, 32, 53, 48, 48, 32, 48, 48, 48, 32, 8376>>,
       description |-> "desc_hilux", image |-> "hilux.jpg", specs |-> "specs_hilux",
       is_discounted |-> 0],
      [category |-> CATEGORY.hybrid,
       brand |-> <<84, 111, 121, 111, 116, 97>>,
       model |-> <<80, 114, 105, 117, 115>>,
       price |-> <<49, 52, 32, 57, 48, 48, 32, 48, 48, 48, 32, 8376>>,
       description |-> "desc_prius", image |-> "prius.jpg", specs |-> "specs_prius",
       is_discounted |-> 0],
      [category |-> CATEGORY.sedan,
       brand |-> <<84, 111, 121, 111, 116, 97>>,
       model |-> <<67, 97, 109, 114, 121, 32, 53, 48>>,
       price |-> <<49, 49, 32, 48, 48, 48, 32, 48, 48, 48, 32, 8376>>,
       description |-> "desc_camry_used", image |-> "camry_used.jpg", specs |-> "specs_camry_used",
       is_discounted |-> 0],
      [category |-> CATEGORY.electric,
       brand |-> <<1053, 1077, 1090, 1072>>,
       model |-> <<86>>,
       price |-> <<56, 32, 57, 48, 48, 32, 48, 48, 48, 32, 8376>>,
       description |-> "desc_neta", image |-> "neta.jpg", specs |-> "specs_neta",
       is_discounted |-> 0]>>

\* the contents of table cars the extractor meets: empty, as created by
\* init_cars_db, and with rows added since: four more models of one brand, a
\* second row of a model the table has, and a brand written in Cyrillic, in
\* the order of get_all_cars
Catalogs ==
    {OrderCars(rows) :
        rows \in {<<>>, cars_table,
                  cars_table \o SubSeq(ADDED_CARS, 1, 4),
                  cars_table \o SubSeq(ADDED_CARS, 5, 6),
                  cars_table \o ADDED_CARS}}

\* what the model returns through ask_ollama
Replies == {REPLY.two, REPLY.no_data} \cup OLLAMA_FAILURE_TEXTS

\* the texts match_cars_from_response is applied to on its own
MatchReplies ==
    {REPLY.two, REPLY.no_data, LIST_REPLY.reversed, LIST_REPLY.brand, LIST_REPLY.repeated,
     MATCH_REPLY.twice, MATCH_REPLY.none, MATCH_REPLY.blank, MATCH_REPLY.stops,
     MATCH_REPLY.longer, MATCH_REPLY.sentinels, MATCH_REPLY.letter}

\* replies that end with a list of tokens
ListReplies == {REPLY.two, LIST_REPLY.reversed, LIST_REPLY.brand, LIST_REPLY.repeated}

\* a reply that ends with a well-formed line, followed by a text without
\* the marker
Continued == {[base |-> REPLY.two, tail |-> tail] :
                 tail \in {TRAILING.same_line, TRAILING.next_line, TRAILING.period}}

ContinuedReplies == {c.base \o c.tail : c \in Continued}

\* the texts an AI turn ends with: a reply of the model or a fallback
Answers ==
    Replies \cup ListReplies \cup ContinuedReplies \cup {TIMEOUT_FALLBACK, ERROR_FALLBACK}

\* the cars matched in each answer, evaluated once
answer_matches == [response \in Answers |-> match_cars(response, get_all_cars)]

match_cars_from_response(response) ==
    IF response \in Answers THEN answer_matches[response]
    ELSE match_cars(response, get_all_cars)

(***************************************************************************)
(* Bounds of the model.                                                    *)
(***************************************************************************)
\* updates that arrive in one run
MaxUpdates == 3

\* updates that arrive in one run of the long AI dialogue (SpecHistory)
MaxTurns == 7

\* updates that arrive in one run of the onboarding (SpecOnboarding)
MaxOnboarding == 4

\* updates that arrive in one run of the feedback presses (SpecFeedback)
MaxPresses == 4

\* updates that wait in the update queue
MaxQueue == 2

\* an outage of the chat transport starts at the MaxFailAt-th unprotected call
\* of a handler run at the latest
MaxFailAt == 2

(***************************************************************************)
(* State.                                                                  *)
(*   user_state, user_info, filter_info, ai_sessions, help_messages: the   *)
(*       dictionaries of src/main.py, functions over Keys                  *)
(*   users, feedback, ai_dialogs: the tables of questions.db the bot       *)
(*       writes                                                            *)
(*   queue: the updates received and not yet dispatched                    *)
(*   tasks: the handler runs suspended in asyncio.wait_for                 *)
(*   workers: the threads running ask_ollama                               *)
(*   returned: the ask_ollama threads that have returned (history          *)
(*       variable)                                                         *)
(*   arrived: the number of updates received                               *)
(*   last: what the latest handler run did (history variable)              *)
(*   hist_log: per key, every entry appended to the history deque since    *)
(*       the deque was created or cleared (history variable)               *)
(*   extraction: the text and the catalog match_cars_from_response is      *)
(*       called with on its own, and the list it returned                  *)
(*   applied: the latest call of a function of database.py on its own:     *)
(*       its name, arguments and return value                              *)
(***************************************************************************)
VARIABLES user_state, user_info, filter_info, ai_sessions, help_messages,
          users, feedback, ai_dialogs, queue, tasks, workers, returned, arrived,
          last, hist_log, extraction, applied

vars == <<user_state, user_info, filter_info, ai_sessions, help_messages,
          users, feedback, ai_dialogs, queue, tasks, workers, returned, arrived,
          last, hist_log, extraction, applied>>

\* chat and user identifiers; a private chat has the identifier of its user
Keys == {1, 2}

\* what a handler reads and writes, as one record
Store ==
    [user_state |-> user_state, user_info |-> user_info,
     filter_info |-> filter_info, ai_sessions |-> ai_sessions,
     help_messages |-> help_messages, users |-> users, feedback |-> feedback,
     ai_dialogs |-> ai_dialogs, hist_log |-> hist_log]

\* table users when the bot starts: the user of chat 1 has registered before
\* (name "Айдар", age "30", city "Алматы")
initial_users ==
    <<[id |-> 1, name |-> <<1040, 1081, 1076, 1072, 1088>>, age |-> <<51, 48>>,
       city |-> <<1040, 1083, 1084, 1072, 1090, 1099>>, chat_id |-> 1]>>

(***************************************************************************)
(* What the transport and the store do during one handler run:             *)
(*   loading_ok    send_loading's reply_text succeeds                      *)
(*   protected_ok  the calls inside try blocks succeed: edit_text,         *)
(*                 edit_message_text of edit_or_send, reply_photo          *)
(*   fail_at       0, or n when the n-th call outside a try block raises   *)
(*                 NetworkError (reply_text, edit_message_text, answer)    *)
(*   db_ok         the statements on questions.db succeed                  *)
(***************************************************************************)
Envs ==
    [loading_ok : BOOLEAN, protected_ok : BOOLEAN, fail_at : 0..MaxFailAt,
     db_ok : BOOLEAN]

(***************************************************************************)
(* A handler run is a sequence of steps in program order:                  *)
(*   w    the dictionaries and tables after the assignments made so far    *)
(*   u    a call of the transport outside any try block                    *)
(*   pu   a call inside a try block, followed on failure (or when can_p is *)
(*        false: no loading message, no image) by a fresh reply_text       *)
(*   p    a call inside a try block with no fallback (send_loading)        *)
(*   db   a statement on questions.db outside any try block                *)
(*   pdb  a statement on questions.db inside a try block that logs the     *)
(*        exception; st is the store after the statement                   *)
(*   call a query or lookup, kept for the record of the run                *)
(*   raise an exception of the handler's own code (KeyError)               *)
(***************************************************************************)
W(st) == [kind |-> "w", st |-> st, tag |-> "", text |-> <<>>, can_p |-> FALSE]

U(tag, text) ==
    [kind |-> "u", st |-> <<>>, tag |-> tag, text |-> text, can_p |-> FALSE]

PU(tag, text, can_p) ==
    [kind |-> "pu", st |-> <<>>, tag |-> tag, text |-> text, can_p |-> can_p]

P(tag) == [kind |-> "p", st |-> <<>>, tag |-> tag, text |-> <<>>, can_p |-> TRUE]

DB(tag) == [kind |-> "db", st |-> <<>>, tag |-> tag, text |-> <<>>, can_p |-> FALSE]

\* a write whose failure leaves the handler
PDB_unprotected(tag, st) ==
    [kind |-> "db", st |-> st, tag |-> tag, text |-> <<>>, can_p |-> FALSE]

PDB(tag, st) == [kind |-> "pdb", st |-> st, tag |-> tag, text |-> <<>>, can_p |-> FALSE]

Call(tag, args) ==
    [kind |-> "call", st |-> <<>>, tag |-> tag, text |-> args, can_p |-> FALSE]

Raise(tag) ==
    [kind |-> "raise", st |-> <<>>, tag |-> tag, text |-> <<>>, can_p |-> FALSE]

Sent(step, via) == [tag |-> step.tag, text |-> step.text, via |-> via]

Called(step) == [tag |-> step.tag, args |-> step.text]

\* one step of a run; acc = [st, out, calls, n_u, raised]
ExecStep(step, acc, env) ==
    IF step.kind = "w" THEN [acc EXCEPT !.st = step.st]
    ELSE IF step.kind = "call" THEN [acc EXCEPT !.calls = Append(@, Called(step))]
    ELSE IF step.kind = "raise" THEN [acc EXCEPT !.raised = TRUE]
    ELSE IF step.kind = "db"
    THEN IF env.db_ok THEN [acc EXCEPT !.calls = Append(@, Called(step))]
         ELSE [acc EXCEPT !.raised = TRUE]
    ELSE IF step.kind = "pdb"
    THEN IF env.db_ok THEN [acc EXCEPT !.st = step.st, !.calls = Append(@, Called(step))]
         ELSE acc
    ELSE IF step.kind = "p"
    THEN IF env.loading_ok THEN [acc EXCEPT !.out = Append(@, Sent(step, "send"))]
         ELSE acc
    ELSE IF step.kind = "pu" /\ step.can_p /\ env.protected_ok
    THEN [acc EXCEPT !.out = Append(@, Sent(step, "edit"))]
    ELSE IF env.fail_at = acc.n_u + 1
    THEN [acc EXCEPT !.raised = TRUE, !.n_u = @ + 1]
    ELSE [acc EXCEPT !.out = Append(@, Sent(step, "send")), !.n_u = @ + 1]

\* every call succeeds
NominalEnv == [loading_ok |-> TRUE, protected_ok |-> TRUE, fail_at |-> 0, db_ok |-> TRUE]

\* the environments that make a difference to a run of steps: a call the run
\* never makes cannot fail
RunEnvs(steps) ==
    LET Has(kinds) == \E i \in 1..Len(steps) : steps[i].kind \in kinds
        n_u == Cardinality({i \in 1..Len(steps) : steps[i].kind \in {"u", "pu"}})
    IN  {env \in Envs :
            /\ env.loading_ok \/ Has({"p"})
            /\ env.protected_ok \/ \E i \in 1..Len(steps) :
                                       steps[i].kind = "pu" /\ steps[i].can_p
            /\ env.fail_at <= n_u
            /\ env.db_ok \/ Has({"db", "pdb"})}

\* the steps in order, up to the first exception that leaves the handler
RECURSIVE Exec(_, _, _)
Exec(steps, acc, env) ==
    IF steps = <<>> \/ acc.raised THEN acc
    ELSE CHOOSE result \in {Exec(Tail(steps), next, env) :
                                next \in {ExecStep(Head(steps), acc, env)}} : TRUE

Run(steps, st, env) ==
    Exec(steps, [st |-> st, out |-> <<>>, calls |-> <<>>, n_u |-> 0, raised |-> FALSE],
         env)

(***************************************************************************)
(* The AI session of a chat (src/main.py).                                 *)
(***************************************************************************)
\* a deque without maxlen
deque_append_unbounded(history, entry) == Append(history, entry)

\* deque(maxlen=10).append(entry)
deque_append(history, entry) ==
    IF Len(history) >= HISTORY_MAXLEN THEN Append(Tail(history), entry)
    ELSE Append(history, entry)

new_session == [history |-> <<>>, last_suggestions |-> <<>>, last_feedback |-> Nothing]

\* get_ai_session: the store with a session for chat_id
get_ai_session(st, chat_id) ==
    IF st.ai_sessions[chat_id] = Nothing
    THEN [st EXCEPT !.ai_sessions[chat_id] = Some(new_session),
                    !.hist_log[chat_id] = <<>>]
    ELSE st

\* session["history"].append(entry) for the session of chat_id
history_append(st, chat_id, entry) ==
    [st EXCEPT !.ai_sessions[chat_id][1].history = deque_append(@, entry),
               !.hist_log[chat_id] = Append(@, entry)]

\* ai_sessions.pop(chat_id, None)
pop_session(st, chat_id) ==
    [st EXCEPT !.ai_sessions[chat_id] = Nothing, !.hist_log[chat_id] = <<>>]

\* clear_help_history: the messages are deleted, failures are suppressed
clear_help_history(st, chat_id) == [st EXCEPT !.help_messages[chat_id] = <<>>]

\* a dict is true when it exists and is not empty
Truthy(opt) == opt # Nothing /\ opt[1] # EmptyDict

\* get_or_load_user: whether table users has to be read
load_user_reads_db(st, chat_id) == ~Truthy(st.user_info[chat_id])

\* get_or_load_user: the store afterwards (the row found is cached)
load_user_store(st, chat_id) ==
    IF load_user_reads_db(st, chat_id) /\ get_user_by_chat_id(st.users, chat_id) # Nothing
    THEN LET existing == get_user_by_chat_id(st.users, chat_id)[1]
         IN  [st EXCEPT !.user_info[chat_id] =
                            Some([id |-> existing.id, name |-> existing.name,
                                  age |-> existing.age, city |-> existing.city])]
    ELSE st

\* get_or_load_user: the dict returned, or Nothing
load_user_result(st, chat_id) ==
    IF Truthy(load_user_store(st, chat_id).user_info[chat_id])
    THEN load_user_store(st, chat_id).user_info[chat_id]
    ELSE Nothing

\* a text that is neither None nor ""
TextOrEmpty(opt) == IF opt = Nothing THEN <<>> ELSE opt[1]

\* every car of a category is listed
prompt_catalog_of_all(cars) ==
    LET firsts == {i \in 1..Len(cars) :
                      \A j \in 1..(i - 1) : cars[j].category # cars[i].category}
        Group(c) == SelectSeq(cars, LAMBDA x : x.category = c)
        Item(x) == [brand |-> x.brand, model |-> x.model, price |-> x.price,
                    specs |-> x.specs]
        Items(c) == [k \in 1..Len(Group(c)) |-> Item(Group(c)[k])]
    IN  [n \in 1..Cardinality(firsts) |->
            LET i == CHOOSE i \in firsts :
                        Cardinality({j \in firsts : j <= i}) = n
            IN  [category |-> cars[i].category, cars |-> Items(cars[i].category)]]

\* grouped and items[:3]: per category of cars, in the order in which the
\* categories first occur, its first 3 cars
prompt_catalog_of(cars) ==
    LET firsts == {i \in 1..Len(cars) :
                      \A j \in 1..(i - 1) : cars[j].category # cars[i].category}
        Group(c) == SelectSeq(cars, LAMBDA x : x.category = c)
        Item(x) == [brand |-> x.brand, model |-> x.model, price |-> x.price,
                    specs |-> x.specs]
        Items(c) == [k \in 1..(IF Len(Group(c)) < 3 THEN Len(Group(c)) ELSE 3) |->
                        Item(Group(c)[k])]
    IN  [n \in 1..Cardinality(firsts) |->
            LET i == CHOOSE i \in firsts :
                        Cardinality({j \in firsts : j <= i}) = n
            IN  [category |-> cars[i].category, cars |-> Items(cars[i].category)]]

\* "Доступные автомобили": the digest of get_all_cars
prompt_catalog == prompt_catalog_of(get_all_cars)

\* build_ai_prompt, after get_or_load_user: the parts of the prompt in order.
\* profile is <<>> for "данные не указаны, обращение первое", else
\* <<name, age or "", city or "">>; history is the transcript (empty: no section)
build_ai_prompt(st, chat_id, question) ==
    LET user == load_user_result(st, chat_id)
        session == st.ai_sessions[chat_id]
    IN  [profile |-> IF user = Nothing THEN <<>>
                     ELSE <<user[1].name, TextOrEmpty(DictGet(user[1], "age")),
                            TextOrEmpty(DictGet(user[1], "city"))>>,
         history |-> IF session = Nothing THEN <<>> ELSE session[1].history,
         catalog |-> prompt_catalog,
         question |-> question]

\* the caption of a car card starts with brand and model
CardText(car) == car.brand \o <<32>> \o car.model

\* only the first car gets a card
Cards_first_only(cars) ==
    [i \in 1..(IF cars = <<>> THEN 0 ELSE 1) |->
        PU("card", CardText(cars[i]), cars[i].image # "")]

\* send_car_card for each car of a list
Cards(cars) == [i \in 1..Len(cars) |-> PU("card", CardText(cars[i]), cars[i].image # "")]

(***************************************************************************)
(* start (src/main.py).  A handler is given as the branch taken and its    *)
(* steps; suspend tells that the run then waits for the AI call.           *)
(***************************************************************************)
Handler(branch, steps) ==
    [branch |-> branch, steps |-> steps, suspend |-> FALSE, prompt |-> <<>>]

\* /start also drops the AI session of the chat
start_pops_session(st, upd) ==
    LET chat_id == upd.chat
        existing_user == get_user_by_chat_id(st.users, chat_id)
    IN  IF existing_user # Nothing
        THEN Handler("start_existing",
                     <<DB("get_user_by_chat_id"),
                       W([st EXCEPT !.user_state[chat_id] = None,
                                    !.ai_sessions[chat_id] = Nothing,
                                    !.user_info[chat_id] =
                                        Some([id |-> existing_user[1].id,
                                              name |-> existing_user[1].name,
                                              age |-> existing_user[1].age,
                                              city |-> existing_user[1].city])]),
                       U("welcome_back", <<>>)>>)
        ELSE Handler("start_new",
                     <<DB("get_user_by_chat_id"),
                       U("ask_name", <<>>),
                       W([st EXCEPT !.user_state[chat_id] = "ask_name",
                                    !.ai_sessions[chat_id] = Nothing])>>)

start(st, upd) ==
    LET chat_id == upd.chat
        existing_user == get_user_by_chat_id(st.users, chat_id)
    IN  IF existing_user # Nothing
        THEN Handler("start_existing",
                     <<DB("get_user_by_chat_id"),
                       W([st EXCEPT !.user_state[chat_id] = None,
                                    !.user_info[chat_id] =
                                        Some([id |-> existing_user[1].id,
                                              name |-> existing_user[1].name,
                                              age |-> existing_user[1].age,
                                              city |-> existing_user[1].city])]),
                       U("welcome_back", <<>>)>>)
        ELSE Handler("start_new",
                     <<DB("get_user_by_chat_id"),
                       U("ask_name", <<>>),
                       W([st EXCEPT !.user_state[chat_id] = "ask_name"])>>)


(***************************************************************************)
(* handle_message (src/main.py): the branches outside the AI dialogue.     *)
(***************************************************************************)
\* the word is compared as typed
FilterField_as_typed(text) ==
    IF text = <<>> \/ text = SKIP_WORD THEN Nothing ELSE Some(text)

\* "not text or text.lower() == 'пропустить'" maps the field to None
FilterField(text) ==
    IF text = <<>> \/ lower(text) = SKIP_WORD THEN Nothing ELSE Some(text)

\* the result list of a search: a header and the cards, or the "not found" text
Results(cars, found_tag, empty_tag, env) ==
    IF cars # <<>>
    THEN <<PU(found_tag, <<>>, env.loading_ok)>> \o Cards(cars)
    ELSE <<PU(empty_tag, <<>>, env.loading_ok)>>

\* a handler that goes on to the city at once
ask_name_skips_age(st, chat_id, text) ==
    Handler("ask_name",
            <<W([st EXCEPT !.user_info[chat_id] = Some([name |-> text]),
                           !.user_state[chat_id] = "ask_city"]),
              U("ask_age", <<>>)>>)

ask_name(st, chat_id, text) ==
    Handler("ask_name",
            <<W([st EXCEPT !.user_info[chat_id] = Some([name |-> text]),
                           !.user_state[chat_id] = "ask_age"]),
              U("ask_age", <<>>)>>)

ask_age(st, chat_id, text, env) ==
    IF st.user_info[chat_id] = Nothing THEN Handler("ask_age", <<Raise("KeyError")>>)
    ELSE Handler("ask_age",
                 <<W([st EXCEPT !.user_info[chat_id][1] = DictSet(@, "age", text),
                                !.user_state[chat_id] = "ask_city"]),
                   P("loading"),
                   PU("ask_city", <<>>, env.loading_ok)>>)

\* the identifier save_user returns is dropped
ask_city_forgets_id(st, chat_id, text) ==
    IF st.user_info[chat_id] = Nothing
       \/ ~({"name", "age"} \subseteq DOMAIN st.user_info[chat_id][1])
    THEN Handler("ask_city", <<Raise("KeyError")>>)
    ELSE LET info == DictSet(st.user_info[chat_id][1], "city", text)
             st1 == [st EXCEPT !.user_info[chat_id] = Some(info)]
             st2 == [st1 EXCEPT !.users = save_user_rows(st.users, info.name, info.age,
                                                         info.city, chat_id),
                                !.user_state[chat_id] = None]
         IN  Handler("ask_city",
                     <<W(st1), DB("save_user"), W(st2), U("registered", <<>>)>>)

ask_city(st, chat_id, text) ==
    IF st.user_info[chat_id] = Nothing
       \/ ~({"name", "age"} \subseteq DOMAIN st.user_info[chat_id][1])
    THEN Handler("ask_city", <<Raise("KeyError")>>)
    ELSE LET info == DictSet(st.user_info[chat_id][1], "city", text)
             st1 == [st EXCEPT !.user_info[chat_id] = Some(info)]
             user_id == save_user_id(st.users, chat_id)
             st2 == [st1 EXCEPT !.users = save_user_rows(st.users, info.name, info.age,
                                                         info.city, chat_id),
                                !.user_info[chat_id] = Some(DictSet(info, "id", user_id)),
                                !.user_state[chat_id] = None]
         IN  Handler("ask_city",
                     <<W(st1), DB("save_user"), W(st2), U("registered", <<>>)>>)

filter_brand(st, chat_id, text) ==
    Handler("filter_brand",
            <<W([st EXCEPT !.filter_info[chat_id] = Some([brand |-> FilterField(text)]),
                           !.user_state[chat_id] = "filter_model"]),
              U("ask_model", <<>>)>>)

filter_model(st, chat_id, text, env) ==
    LET old == IF st.filter_info[chat_id] = Nothing THEN EmptyDict
               ELSE st.filter_info[chat_id][1]
        info == DictSet(old, "model", FilterField(text))
        brand == IF "brand" \in DOMAIN info THEN info.brand ELSE Nothing
        cars == get_cars_by_filters(brand, info.model)
    IN  Handler("filter_model",
                <<W([st EXCEPT !.filter_info[chat_id] = Some(info)]),
                  P("loading"),
                  Call("get_cars_by_filters", <<brand, info.model>>)>>
                \o Results(cars, "filter_results", "filter_empty", env)
                \o <<W([st EXCEPT !.filter_info[chat_id] = Nothing,
                                  !.user_state[chat_id] = None]),
                     U("next_action", <<>>)>>)

search_by_name(st, chat_id, text, env) ==
    Handler("search_by_name",
            <<P("loading"), Call("search_car_by_name", text)>>
            \o Results(search_car_by_name(text), "search_results", "search_empty", env)
            \o <<W([st EXCEPT !.user_state[chat_id] = None]),
                 U("next_action", <<>>)>>)

\* a text without digits ends the search
search_by_price_gives_up(st, chat_id, text, env) ==
    LET digits == find_digit_runs(text)
        price == DigitsValue(digits[1])
    IN  IF digits = <<>>
        THEN Handler("search_by_price_reprompt",
                     <<W([st EXCEPT !.user_state[chat_id] = None]),
                       U("price_reprompt", <<>>)>>)
        ELSE IF ~sqlite_binds(digits[1])
        THEN Handler("search_by_price_overflow",
                     <<P("loading"), Raise("OverflowError")>>)
        ELSE Handler("search_by_price",
                     <<P("loading"), Call("search_car_by_price", price)>>
                     \o Results(search_car_by_price(price), "price_results",
                                "price_empty", env)
                     \o <<W([st EXCEPT !.user_state[chat_id] = None]),
                          U("next_action", <<>>)>>)

search_by_price(st, chat_id, text, env) ==
    LET digits == find_digit_runs(text)
        price == DigitsValue(digits[1])
    IN  IF digits = <<>>
        THEN Handler("search_by_price_reprompt", <<U("price_reprompt", <<>>)>>)
        ELSE IF ~sqlite_binds(digits[1])
        THEN Handler("search_by_price_overflow",
                     <<P("loading"), Raise("OverflowError")>>)
        ELSE Handler("search_by_price",
                     <<P("loading"), Call("search_car_by_price", price)>>
                     \o Results(search_car_by_price(price), "price_results",
                                "price_empty", env)
                     \o <<W([st EXCEPT !.user_state[chat_id] = None]),
                          U("next_action", <<>>)>>)


(***************************************************************************)
(* handle_message (src/main.py): the AI dialogue.                          *)
(***************************************************************************)
\* session.get("last_suggestions") if session else []
last_suggestions_of(st, chat_id) ==
    IF st.ai_sessions[chat_id] = Nothing THEN <<>>
    ELSE st.ai_sessions[chat_id][1].last_suggestions

\* every text but a cancellation keyword is taken for a refusal
ask_ai_confirm_refuses(st, chat_id, text, env) ==
    IF lower(text) \in STOP_WORDS
    THEN Handler("confirm_stop",
                 <<W(pop_session([st EXCEPT !.user_state[chat_id] = None], chat_id)),
                   U("back_to_menu", <<>>)>>)
    ELSE Handler("confirm_no",
                 <<W([st EXCEPT !.user_state[chat_id] = "ask_ai"]),
                   U("ask_more", <<>>)>>)

\* after "да" the list is emptied and the chat stays in the confirmation
ask_ai_confirm_yes_stays(st, chat_id, text, env) ==
    LET text_lower == lower(text)
        suggestions == last_suggestions_of(st, chat_id)
        cleared == IF st.ai_sessions[chat_id] = Nothing THEN st
                   ELSE [st EXCEPT !.ai_sessions[chat_id][1].last_suggestions = <<>>]
    IN  IF text_lower \in STOP_WORDS
        THEN Handler("confirm_stop",
                     <<W(pop_session([st EXCEPT !.user_state[chat_id] = None], chat_id)),
                       U("back_to_menu", <<>>)>>)
        ELSE IF text_lower \in YES_ANSWERS
        THEN Handler("confirm_yes",
                     (IF suggestions # <<>>
                      THEN <<P("loading")>> \o Cards(suggestions)
                           \o <<PU("done", <<>>, env.loading_ok)>>
                      ELSE <<U("nothing_to_show", <<>>)>>)
                     \o <<W(cleared),
                          U("ask_more", <<>>)>>)
        ELSE IF text_lower \in NO_ANSWERS
        THEN Handler("confirm_no",
                     <<W([st EXCEPT !.user_state[chat_id] = "ask_ai"]),
                       U("ask_more", <<>>)>>)
        ELSE Handler("confirm_other", <<U("yes_no_reprompt", <<>>)>>)

ask_ai_confirm(st, chat_id, text, env) ==
    LET text_lower == lower(text)
        suggestions == last_suggestions_of(st, chat_id)
        cleared == IF st.ai_sessions[chat_id] = Nothing THEN st
                   ELSE [st EXCEPT !.ai_sessions[chat_id][1].last_suggestions = <<>>]
    IN  IF text_lower \in STOP_WORDS
        THEN Handler("confirm_stop",
                     <<W(pop_session([st EXCEPT !.user_state[chat_id] = None], chat_id)),
                       U("back_to_menu", <<>>)>>)
        ELSE IF text_lower \in YES_ANSWERS
        THEN Handler("confirm_yes",
                     (IF suggestions # <<>>
                      THEN <<P("loading")>> \o Cards(suggestions)
                           \o <<PU("done", <<>>, env.loading_ok)>>
                      ELSE <<U("nothing_to_show", <<>>)>>)
                     \o <<W([cleared EXCEPT !.user_state[chat_id] = "ask_ai"]),
                          U("ask_more", <<>>)>>)
        ELSE IF text_lower \in NO_ANSWERS
        THEN Handler("confirm_no",
                     <<W([st EXCEPT !.user_state[chat_id] = "ask_ai"]),
                       U("ask_more", <<>>)>>)
        ELSE Handler("confirm_other", <<U("yes_no_reprompt", <<>>)>>)

\* the session is kept
ask_ai_stop_keeps_session(st, chat_id) ==
    Handler("ask_ai_stop",
            <<W([clear_help_history(st, chat_id) EXCEPT !.user_state[chat_id] = None]),
              U("back_to_menu", <<>>)>>)

\* lines 547-552
ask_ai_stop(st, chat_id) ==
    Handler("ask_ai_stop",
            <<W(pop_session([clear_help_history(st, chat_id)
                                EXCEPT !.user_state[chat_id] = None], chat_id)),
              U("back_to_menu", <<>>)>>)

\* every question goes to the AI backend
ask_ai_question_always_ai(st, chat_id, text) ==
    LET st1 == clear_help_history(
                   history_append(get_ai_session(st, chat_id), chat_id, <<"user", text>>),
                   chat_id)
        st3 == load_user_store(st1, chat_id)
    IN  [branch |-> "ask_ai_question",
         steps |-> <<W(st1), Call("get_answer", text)>>
                   \o (IF load_user_reads_db(st1, chat_id)
                       THEN <<DB("get_user_by_chat_id"), W(st3)>> ELSE <<>>)
                   \o <<Call("get_all_cars", <<>>), P("loading")>>,
         suspend |-> TRUE,
         prompt |-> build_ai_prompt(st1, chat_id, text)]

\* a canned answer does not become the last_feedback
ask_ai_question_canned_unrated(st, chat_id, text) ==
    LET st1 == clear_help_history(
                   history_append(get_ai_session(st, chat_id), chat_id, <<"user", text>>),
                   chat_id)
        stored == get_answer(text)
        response == stored[1].answer
        st2 == [history_append(st1, chat_id, <<"assistant", response>>)
                   EXCEPT !.ai_sessions[chat_id][1].last_suggestions = <<>>]
        st3 == load_user_store(st1, chat_id)
    IN  IF stored # Nothing
        THEN Handler("ask_ai_canned",
                     <<W(st1), Call("get_answer", text), W(st2), U("answer", response),
                       U("feedback_prompt", <<>>), U("ask_more", <<>>)>>)
        ELSE [branch |-> "ask_ai_question",
              steps |-> <<W(st1), Call("get_answer", text)>>
                        \o (IF load_user_reads_db(st1, chat_id)
                            THEN <<DB("get_user_by_chat_id"), W(st3)>> ELSE <<>>)
                        \o <<Call("get_all_cars", <<>>), P("loading")>>,
              suspend |-> TRUE,
              prompt |-> build_ai_prompt(st1, chat_id, text)]

\* the prompt is built before the question is appended to the history
ask_ai_question_prompt_first(st, chat_id, text) ==
    LET st1 == clear_help_history(
                   history_append(get_ai_session(st, chat_id), chat_id, <<"user", text>>),
                   chat_id)
        stored == get_answer(text)
        response == stored[1].answer
        st2 == [history_append(st1, chat_id, <<"assistant", response>>)
                   EXCEPT !.ai_sessions[chat_id][1].last_suggestions = <<>>,
                          !.ai_sessions[chat_id][1].last_feedback =
                              Some([question |-> text, answer |-> response])]
        st3 == load_user_store(st1, chat_id)
    IN  IF stored # Nothing
        THEN Handler("ask_ai_canned",
                     <<W(st1), Call("get_answer", text), W(st2), U("answer", response),
                       U("feedback_prompt", <<>>), U("ask_more", <<>>)>>)
        ELSE [branch |-> "ask_ai_question",
              steps |-> <<W(st1), Call("get_answer", text)>>
                        \o (IF load_user_reads_db(st1, chat_id)
                            THEN <<DB("get_user_by_chat_id"), W(st3)>> ELSE <<>>)
                        \o <<Call("get_all_cars", <<>>), P("loading")>>,
              suspend |-> TRUE,
              prompt |-> build_ai_prompt(get_ai_session(st, chat_id), chat_id, text)]

\* lines 554-590: up to the await of the AI call, or the canned answer
ask_ai_question(st, chat_id, text) ==
    LET st1 == clear_help_history(
                   history_append(get_ai_session(st, chat_id), chat_id, <<"user", text>>),
                   chat_id)
        stored == get_answer(text)
        response == stored[1].answer
        st2 == [history_append(st1, chat_id, <<"assistant", response>>)
                   EXCEPT !.ai_sessions[chat_id][1].last_suggestions = <<>>,
                          !.ai_sessions[chat_id][1].last_feedback =
                              Some([question |-> text, answer |-> response])]
        st3 == load_user_store(st1, chat_id)
    IN  IF stored # Nothing
        THEN Handler("ask_ai_canned",
                     <<W(st1), Call("get_answer", text), W(st2), U("answer", response),
                       U("feedback_prompt", <<>>), U("ask_more", <<>>)>>)
        ELSE [branch |-> "ask_ai_question",
              steps |-> <<W(st1), Call("get_answer", text)>>
                        \o (IF load_user_reads_db(st1, chat_id)
                            THEN <<DB("get_user_by_chat_id"), W(st3)>> ELSE <<>>)
                        \o <<Call("get_all_cars", <<>>), P("loading")>>,
              suspend |-> TRUE,
              prompt |-> build_ai_prompt(st1, chat_id, text)]

\* how the await of lines 578-590 ends: the thread's return value, the
\* TimeoutError of wait_for, or another exception
OutcomeOk(response) == [status |-> "ok", response |-> response, error |-> Nothing]

\* a timeout recorded as an answer
OutcomeTimeout_as_ok == [status |-> "ok", response |-> TIMEOUT_FALLBACK, error |-> Nothing]

OutcomeTimeout == [status |-> "timeout", response |-> TIMEOUT_FALLBACK, error |-> Nothing]

\* str(exc) is "refused" in the model
OutcomeError ==
    [status |-> "error", response |-> ERROR_FALLBACK,
     error |-> Some(<<114, 101, 102, 117, 115, 101, 100>>)]

\* the audit row with the status "ok" whatever the outcome was
audit_row_always_ok(st, task, outcome) ==
    LET cached == IF st.user_info[task.chat] = Nothing THEN Nothing
                  ELSE DictGet(st.user_info[task.chat][1], "id")
        db_user == get_user_by_chat_id(st.users, task.chat)
        user_id == IF cached # Nothing THEN cached
                   ELSE IF db_user # Nothing THEN Some(db_user[1].id) ELSE Nothing
    IN  [question |-> task.text, answer |-> outcome.response, user_id |-> user_id,
         prompt |-> task.prompt, status |-> "ok", error |-> outcome.error]

\* lines 620-634: the row save_ai_dialog inserts
audit_row(st, task, outcome) ==
    LET cached == IF st.user_info[task.chat] = Nothing THEN Nothing
                  ELSE DictGet(st.user_info[task.chat][1], "id")
        db_user == get_user_by_chat_id(st.users, task.chat)
        user_id == IF cached # Nothing THEN cached
                   ELSE IF db_user # Nothing THEN Some(db_user[1].id) ELSE Nothing
    IN  [question |-> task.text, answer |-> outcome.response, user_id |-> user_id,
         prompt |-> task.prompt, status |-> outcome.status, error |-> outcome.error]

\* every turn moves on to the confirmation
state_after_turn_always(st, chat_id, suggestions) ==
    [st EXCEPT !.user_state[chat_id] = "ask_ai_confirm"]

\* lines 612-618: the state is changed only when cars were recognised
state_after_turn(st, chat_id, suggestions) ==
    IF suggestions # <<>> THEN [st EXCEPT !.user_state[chat_id] = "ask_ai_confirm"]
    ELSE st

\* lines 591-636: from the end of the await to the return.  session and
\* history are the objects read at line 554; when ai_sessions no longer
\* holds them (task.detached) the writes change no dictionary entry
ask_ai_resume(st, task, outcome) ==
    LET chat_id == task.chat
        response == outcome.response
        suggestions == match_cars_from_response(response)
        st1 == IF task.detached \/ st.ai_sessions[chat_id] = Nothing THEN st
               ELSE [history_append(st, chat_id, <<"assistant", response>>)
                        EXCEPT !.ai_sessions[chat_id][1].last_suggestions = suggestions,
                               !.ai_sessions[chat_id][1].last_feedback =
                                   Some([question |-> task.text, answer |-> response])]
        st2 == state_after_turn(st1, chat_id, suggestions)
    IN  Handler("ask_ai_resume",
                <<Call("get_all_cars", <<>>), W(st1),
                  PU("answer", response, task.loading),
                  U("feedback_prompt", <<>>)>>
                \o (IF suggestions # <<>>
                    THEN <<U("offer_photos", <<>>), W(st2)>>
                    ELSE <<U("ask_more", <<>>)>>)
                \o <<PDB("save_ai_dialog",
                         [st2 EXCEPT !.ai_dialogs = Append(@, audit_row(st2, task, outcome))])>>)

\* a text in no flow is answered with a hint
handle_message_idle_replies(st, upd, env) ==
    LET chat_id == upd.chat
        text == strip(upd.text)
        state == st.user_state[chat_id]
    IN  CASE state = "ask_name" -> ask_name(st, chat_id, text)
          [] state = "ask_age" -> ask_age(st, chat_id, text, env)
          [] state = "ask_city" -> ask_city(st, chat_id, text)
          [] state = "filter_brand" -> filter_brand(st, chat_id, text)
          [] state = "filter_model" -> filter_model(st, chat_id, text, env)
          [] state = "search_by_name" -> search_by_name(st, chat_id, text, env)
          [] state = "search_by_price" -> search_by_price(st, chat_id, text, env)
          [] state = "ask_ai_confirm" -> ask_ai_confirm(st, chat_id, text, env)
          [] state = "ask_ai" /\ lower(text) \in STOP_WORDS -> ask_ai_stop(st, chat_id)
          [] state = "ask_ai" /\ lower(text) \notin STOP_WORDS -> ask_ai_question(st, chat_id, text)
          [] OTHER -> Handler("idle_text", <<U("use_menu", <<>>)>>)

handle_message(st, upd, env) ==
    LET chat_id == upd.chat
        text == strip(upd.text)
        state == st.user_state[chat_id]
    IN  CASE state = "ask_name" -> ask_name(st, chat_id, text)
          [] state = "ask_age" -> ask_age(st, chat_id, text, env)
          [] state = "ask_city" -> ask_city(st, chat_id, text)
          [] state = "filter_brand" -> filter_brand(st, chat_id, text)
          [] state = "filter_model" -> filter_model(st, chat_id, text, env)
          [] state = "search_by_name" -> search_by_name(st, chat_id, text, env)
          [] state = "search_by_price" -> search_by_price(st, chat_id, text, env)
          [] state = "ask_ai_confirm" -> ask_ai_confirm(st, chat_id, text, env)
          [] state = "ask_ai" /\ lower(text) \in STOP_WORDS -> ask_ai_stop(st, chat_id)
          [] state = "ask_ai" /\ lower(text) \notin STOP_WORDS -> ask_ai_question(st, chat_id, text)
          [] OTHER -> Handler("idle_text", <<>>)


(***************************************************************************)
(* Callback data of the inline keyboards (src/main.py, lines 98-157).      *)
(***************************************************************************)
\* callback data of the buttons
\*   discounted: "discounted"
\*   filter: "filter"
\*   search_name: "search_name"
\*   search_price: "search_price"
\*   help_menu: "help_menu"
\*   main_menu: "main_menu"
\*   ask_ai: "ask_ai"
\*   help_cat_credit: "help_cat|credit"
\*   help_q_credit_0: "help_q|credit|0"
\*   feedback_like: "feedback|like"
\*   feedback_dislike: "feedback|dislike"
DATA ==
    [discounted |->
         <<100, 105, 115, 99, 111, 117, 110, 116, 101, 100>>,
     filter |->
         <<102, 105, 108, 116, 101, 114>>,
     search_name |->
         <<115, 101, 97, 114, 99, 104, 95, 110, 97, 109, 101>>,
     search_price |->
         <<115, 101, 97, 114, 99, 104, 95, 112, 114, 105, 99, 101>>,
     help_menu |->
         <<104, 101, 108, 112, 95, 109, 101, 110, 117>>,
     main_menu |->
         <<109, 97, 105, 110, 95, 109, 101, 110, 117>>,
     ask_ai |->
         <<97, 115, 107, 95, 97, 105>>,
     help_cat_credit |->
         <<104, 101, 108, 112, 95, 99, 97, 116, 124, 99, 114, 101, 100,
           105, 116>>,
     help_q_credit_0 |->
         <<104, 101, 108, 112, 95, 113, 124, 99, 114, 101, 100, 105, 116,
           124, 48>>,
     feedback_like |->
         <<102, 101, 101, 100, 98, 97, 99, 107, 124, 108, 105, 107, 101>>,
     feedback_dislike |->
         <<102, 101, 101, 100, 98, 97, 99, 107, 124, 100, 105, 115, 108,
           105, 107, 101>>]

\* the prefixes and actions handlers look for in callback data
\*   help_cat: "help_cat|"
\*   help_q: "help_q|"
\*   feedback: "feedback"
\*   like: "like"
\*   dislike: "dislike"
PREFIX ==
    [help_cat |->
         <<104, 101, 108, 112, 95, 99, 97, 116, 124>>,
     help_q |->
         <<104, 101, 108, 112, 95, 113, 124>>,
     feedback |->
         <<102, 101, 101, 100, 98, 97, 99, 107>>,
     like |->
         <<108, 105, 107, 101>>,
     dislike |->
         <<100, 105, 115, 108, 105, 107, 101>>]

\* the category buttons handle_category accepts (line 662)
CATEGORY_DATA == {CATEGORY.sedan, CATEGORY.crossover, CATEGORY.truck, CATEGORY.electric, CATEGORY.hybrid}

\* str.startswith
startswith(s, prefix) == Len(s) >= Len(prefix) /\ SubSeq(s, 1, Len(prefix)) = prefix

\* str.split(sep, maxsplit) for a one-character separator
RECURSIVE split_max(_, _, _)
split_max(s, sep, maxsplit) ==
    LET at == {i \in 1..Len(s) : s[i] = sep}
    IN  IF at = {} \/ maxsplit = 0 THEN <<s>>
        ELSE <<SubSeq(s, 1, SetMin(at) - 1)>>
                 \o split_max(SubSeq(s, SetMin(at) + 1, Len(s)), sep, maxsplit - 1)

\* int(s) for a text of decimal digits with an optional sign; Nothing stands
\* for ValueError
py_int(s) ==
    LET body == IF s # <<>> /\ s[1] \in {43, 45} THEN Tail(s) ELSE s
    IN  IF body = <<>> \/ \E i \in 1..Len(body) : ~IsDigit(body[i]) THEN Nothing
        ELSE IF s[1] = 45 THEN Some(0 - DigitsValue(body))
        ELSE Some(DigitsValue(body))

(***************************************************************************)
(* handle_category (src/main.py).                                          *)
(***************************************************************************)
\* a list of cars under a header that replaces the menu message
Browse(cars, call, empty_tag, header_tag) ==
    <<PU("loading", <<>>, TRUE), call>>
    \o (IF cars = <<>> THEN <<PU(empty_tag, <<>>, TRUE)>>
        ELSE <<PU(header_tag, <<>>, TRUE)>> \o Cards(cars)
             \o <<U("choose_other", <<>>)>>)

help_cat(st, data) ==
    LET key == split_max(data, 124, 1)[2]
    IN  <<Call("get_help_section_by_key", key)>>
        \o (IF get_help_section_by_key(key) = Nothing THEN <<U("alert", <<>>)>>
            ELSE <<PU("help_questions", <<>>, TRUE)>>)

help_q(st, chat_id, data) ==
    LET parts == split(data, 124)
        index == py_int(parts[3])
        section == get_help_section_by_key(parts[2])
        questions == section[1].questions
        qa_item == questions[index[1] + 1]
    IN  IF Len(parts) # 3 THEN <<U("alert", <<>>)>>
        ELSE IF index = Nothing THEN <<U("alert", <<>>)>>
        ELSE IF section = Nothing
        THEN <<Call("get_help_section_by_key", parts[2]), U("alert", <<>>)>>
        ELSE IF index[1] < 0 \/ index[1] >= Len(questions)
        THEN <<Call("get_help_section_by_key", parts[2]), U("alert", <<>>)>>
        ELSE <<Call("get_help_section_by_key", parts[2]),
               U("help_answer", qa_item.question \o <<10, 10>> \o qa_item.answer),
               W([st EXCEPT !.help_messages[chat_id] = <<"help_answer">>])>>

\* entering the dialogue without the reset of lines 742-744
menu_ask_ai_keeps(st, chat_id) ==
    <<W(get_ai_session([st EXCEPT !.user_state[chat_id] = "ask_ai"], chat_id)),
      U("ai_intro", <<>>)>>

\* lines 738-749
menu_ask_ai(st, chat_id) ==
    LET st1 == get_ai_session([st EXCEPT !.user_state[chat_id] = "ask_ai"], chat_id)
    IN  <<W([st1 EXCEPT !.ai_sessions[chat_id] = Some(new_session),
                        !.hist_log[chat_id] = <<>>]),
          U("ai_intro", <<>>)>>

category_branch(data) ==
    IF data = DATA.discounted THEN "discounted"
    ELSE IF data \in CATEGORY_DATA THEN "category"
    ELSE IF data = DATA.search_name THEN "search_name"
    ELSE IF data = DATA.search_price THEN "search_price"
    ELSE IF data = DATA.filter THEN "filter"
    ELSE IF data = DATA.help_menu THEN "help_menu"
    ELSE IF data = DATA.main_menu THEN "main_menu"
    ELSE IF startswith(data, PREFIX.help_cat) THEN "help_cat"
    ELSE IF startswith(data, PREFIX.help_q) THEN "help_q"
    ELSE IF data = DATA.ask_ai THEN "ask_ai"
    ELSE "unknown"

handle_category(st0, upd) ==
    LET data == upd.data
        chat_id == upd.user
        st == clear_help_history(st0, chat_id)
        branch == category_branch(data)
    IN  Handler(branch,
          <<U("ack", <<>>), W(st)>> \o
          CASE branch = "discounted" ->
                 Browse(get_discounted_cars, Call("get_discounted_cars", <<>>),
                        "no_discounts", "discount_header")
            [] branch = "category" ->
                 Browse(get_cars_by_category(data), Call("get_cars_by_category", data),
                        "no_category_data", "category_header")
            [] branch = "search_name" ->
                 <<W([st EXCEPT !.user_state[chat_id] = "search_by_name"]),
                   U("enter_name", <<>>)>>
            [] branch = "search_price" ->
                 <<W([st EXCEPT !.user_state[chat_id] = "search_by_price"]),
                   U("enter_price", <<>>)>>
            [] branch = "filter" ->
                 <<W([st EXCEPT !.filter_info[chat_id] = Some(EmptyDict),
                                !.user_state[chat_id] = "filter_brand"]),
                   U("enter_brand", <<>>)>>
            [] branch = "help_menu" ->
                 <<Call("get_help_sections", <<>>), PU("help_menu", <<>>, TRUE)>>
            [] branch = "main_menu" -> <<PU("main_menu", <<>>, TRUE)>>
            [] branch = "help_cat" -> help_cat(st, data)
            [] branch = "help_q" -> help_q(st, chat_id, data)
            [] branch = "ask_ai" -> menu_ask_ai(st, chat_id)
            [] OTHER -> <<>>)


(***************************************************************************)
(* handle_feedback (src/main.py).                                          *)
(***************************************************************************)
\* last_feedback is not cleared
handle_feedback_keeps_entry(st, upd, env) ==
    LET payload == split_max(upd.data, 124, 3)
        action == IF Len(payload) > 1 THEN Some(payload[2]) ELSE Nothing
        key == upd.user
        session == st.ai_sessions[key]
        entry == IF session = Nothing THEN Nothing ELSE session[1].last_feedback
        liked == IF action = Some(PREFIX.like) THEN 1 ELSE 0
        st1 == load_user_store(st, key)
        user == load_user_result(st, key)
        user_id == IF user = Nothing THEN Nothing ELSE DictGet(user[1], "id")
        row == [question |-> entry[1].question, answer |-> entry[1].answer,
                user_id |-> user_id[1], liked |-> liked]
        saved == [st1 EXCEPT !.feedback = Append(@, row)]
        st2 == IF user_id # Nothing /\ env.db_ok THEN saved ELSE st1
    IN  IF payload[1] # PREFIX.feedback
        THEN Handler("feedback_unknown", <<U("ack", <<>>), U("alert", <<>>)>>)
        ELSE IF action \notin {Some(PREFIX.like), Some(PREFIX.dislike)}
        THEN Handler("feedback_bad_action", <<U("ack", <<>>), U("thanks", <<>>)>>)
        ELSE IF entry = Nothing
        THEN Handler("feedback_no_entry", <<U("ack", <<>>), U("thanks", <<>>)>>)
        ELSE Handler("feedback",
                     <<U("ack", <<>>)>>
                     \o (IF load_user_reads_db(st, key)
                         THEN <<DB("get_user_by_chat_id"), W(st1)>> ELSE <<>>)
                     \o (IF user_id # Nothing THEN <<PDB("save_feedback", saved)>>
                         ELSE <<>>)
                     \o <<W(st2), U("thanks", <<>>)>>)

handle_feedback(st, upd, env) ==
    LET payload == split_max(upd.data, 124, 3)
        action == IF Len(payload) > 1 THEN Some(payload[2]) ELSE Nothing
        key == upd.user
        session == st.ai_sessions[key]
        entry == IF session = Nothing THEN Nothing ELSE session[1].last_feedback
        liked == IF action = Some(PREFIX.like) THEN 1 ELSE 0
        st1 == load_user_store(st, key)
        user == load_user_result(st, key)
        user_id == IF user = Nothing THEN Nothing ELSE DictGet(user[1], "id")
        row == [question |-> entry[1].question, answer |-> entry[1].answer,
                user_id |-> user_id[1], liked |-> liked]
        saved == [st1 EXCEPT !.feedback = Append(@, row)]
        st2 == IF user_id # Nothing /\ env.db_ok THEN saved ELSE st1
    IN  IF payload[1] # PREFIX.feedback
        THEN Handler("feedback_unknown", <<U("ack", <<>>), U("alert", <<>>)>>)
        ELSE IF action \notin {Some(PREFIX.like), Some(PREFIX.dislike)}
        THEN Handler("feedback_bad_action", <<U("ack", <<>>), U("thanks", <<>>)>>)
        ELSE IF entry = Nothing
        THEN Handler("feedback_no_entry", <<U("ack", <<>>), U("thanks", <<>>)>>)
        ELSE Handler("feedback",
                     <<U("ack", <<>>)>>
                     \o (IF load_user_reads_db(st, key)
                         THEN <<DB("get_user_by_chat_id"), W(st1)>> ELSE <<>>)
                     \o (IF user_id # Nothing THEN <<PDB("save_feedback", saved)>>
                         ELSE <<>>)
                     \o <<W([st2 EXCEPT !.ai_sessions[key][1].last_feedback = Nothing]),
                          U("thanks", <<>>)>>)

(***************************************************************************)
(* Updates and their routing (main, lines 761-764).                        *)
(***************************************************************************)
Update(kind, chat, user, text, data) ==
    [kind |-> kind, chat |-> chat, user |-> user, text |-> text, data |-> data]

\* the handler that takes an update, and the dictionary key it works on
route(upd) ==
    IF upd.kind = "command" THEN "start"
    ELSE IF upd.kind = "text" THEN "handle_message"
    ELSE IF startswith(upd.data, PREFIX.feedback) THEN "handle_feedback"
    ELSE "handle_category"

key_of(upd) == IF upd.kind \in {"command", "text"} THEN upd.chat ELSE upd.user

handle(st, upd, env) ==
    CASE route(upd) = "start" -> start(st, upd)
      [] route(upd) = "handle_message" -> handle_message(st, upd, env)
      [] route(upd) = "handle_feedback" -> handle_feedback(st, upd, env)
      [] OTHER -> handle_category(st, upd)


(***************************************************************************)
(* The updates users send.  A private chat has the identifier of its user. *)
(***************************************************************************)
Text(chat, text) == Update("text", chat, chat, text, <<>>)

Command(chat) == Update("command", chat, chat, <<>>, <<>>)

Button(chat, data) == Update("callback", chat, chat, <<>>, data)

Texts == {INPUT.stop, INPUT.yes, INPUT.no, INPUT.question, INPUT.canned, INPUT.skip, INPUT.price}

Buttons ==
    {DATA.ask_ai, DATA.filter, DATA.search_name, DATA.search_price, DATA.discounted,
     CATEGORY.sedan, DATA.help_menu, DATA.help_q_credit_0, DATA.feedback_like}

\* chat 1 uses the whole vocabulary; chat 2, whose user has not registered,
\* sends /start, a text and the "ask AI" button
Updates ==
    {Text(1, t) : t \in Texts} \cup {Button(1, d) : d \in Buttons}
    \cup {Command(1), Command(2), Text(2, INPUT.question), Button(2, DATA.ask_ai)}

(***************************************************************************)
(* The dispatcher of Application (main, line 756): built without           *)
(* concurrent_updates, it takes the next update only when the handler of   *)
(* the previous one has returned.                                          *)
(***************************************************************************)
\* Application built with concurrent_updates(True)
DispatchAllowed_concurrent == TRUE

DispatchAllowed == tasks = {}

NoRun ==
    [seq |-> 0, key |-> 0, handler |-> "none", branch |-> "none", phase |-> "none",
     text |-> <<>>, before |-> <<>>, raised |-> FALSE, out |-> <<>>, calls |-> <<>>,
     suspended |-> FALSE, status |-> "none", response |-> <<>>]

\* match_cars_from_response has not been called on its own
NoExtraction == [response |-> <<>>, cars |-> <<>>, result |-> Nothing]

\* no function of database.py has been called on its own
NoCall == [fn |-> "none", args |-> <<>>, result |-> <<>>]

Init ==
    /\ user_state = [k \in Keys |-> None]
    /\ user_info = [k \in Keys |-> Nothing]
    /\ filter_info = [k \in Keys |-> Nothing]
    /\ ai_sessions = [k \in Keys |-> Nothing]
    /\ help_messages = [k \in Keys |-> <<>>]
    /\ users = initial_users
    /\ feedback = <<>>
    /\ ai_dialogs = <<>>
    /\ queue = <<>>
    /\ tasks = {}
    /\ workers = {}
    /\ returned = {}
    /\ arrived = 0
    /\ last = NoRun
    /\ hist_log = [k \in Keys |-> <<>>]
    /\ extraction = NoExtraction
    /\ applied = NoCall

\* the dictionaries and tables become those of st
SetStore(st) ==
    /\ user_state' = st.user_state
    /\ user_info' = st.user_info
    /\ filter_info' = st.filter_info
    /\ ai_sessions' = st.ai_sessions
    /\ help_messages' = st.help_messages
    /\ users' = st.users
    /\ feedback' = st.feedback
    /\ ai_dialogs' = st.ai_dialogs
    /\ hist_log' = st.hist_log

\* getUpdates delivers an update; it waits in the update queue.  An update
\* is taken once the queue is empty or a handler is waiting for the AI, which
\* covers every order in which updates can meet a running handler
Receive(upd, max) ==
    /\ arrived < max
    /\ Len(queue) < MaxQueue
    /\ queue = <<>> \/ tasks # {}
    /\ arrived' = arrived + 1
    /\ queue' = Append(queue, [seq |-> arrived + 1, upd |-> upd])
    /\ UNCHANGED <<user_state, user_info, filter_info, ai_sessions, help_messages,
                   users, feedback, ai_dialogs, tasks, workers, returned, last,
                   hist_log, extraction, applied>>

StopBranches == {"confirm_stop", "ask_ai_stop"}

\* a handler and what its steps do to the store under env
Ran(h, env) == [h |-> h, acc |-> Run(h.steps, Store, env)]

\* what the run of the handler of item leaves: the store, the AI call it
\* awaits, the sessions it has dropped
Dispatched(item, env, run) ==
    LET upd == item.upd
        key == key_of(upd)
        h == run.h
        acc == run.acc
        suspended == h.suspend /\ ~acc.raised
        popped == h.branch \in StopBranches
    IN  /\ SetStore(acc.st)
        /\ queue' = Tail(queue)
        /\ tasks' =
               {IF t.key = key /\ popped THEN [t EXCEPT !.detached = TRUE] ELSE t :
                    t \in tasks}
               \cup (IF suspended
                     THEN {[seq |-> item.seq, key |-> key, chat |-> upd.chat,
                            text |-> strip(upd.text), prompt |-> h.prompt,
                            loading |-> env.loading_ok, detached |-> FALSE]}
                     ELSE {})
        /\ workers' =
               {IF w.key = key /\ popped THEN [w EXCEPT !.cancelled = TRUE] ELSE w :
                    w \in workers}
               \cup (IF suspended
                     THEN {[seq |-> item.seq, key |-> key, cancelled |-> FALSE]}
                     ELSE {})
        /\ last' = [seq |-> item.seq, key |-> key, handler |-> route(upd),
                    branch |-> h.branch, phase |-> "run", text |-> strip(upd.text),
                    before |-> Store, raised |-> acc.raised, out |-> acc.out,
                    calls |-> acc.calls, suspended |-> suspended,
                    status |-> "none", response |-> <<>>]

\* the handler of the first update of the queue runs to its return, to the
\* exception that leaves it, or to the await of the AI call
Dispatch(env) ==
    /\ queue # <<>>
    /\ DispatchAllowed
    /\ \E run \in {Ran(handle(Store, Head(queue).upd, env), env)} :
           Dispatched(Head(queue), env, run)
    /\ UNCHANGED <<arrived, returned, extraction, applied>>

\* what the run after the await leaves
Resumed(task, outcome, phase, run) ==
    LET h == run.h
        acc == run.acc
    IN  /\ SetStore(acc.st)
        /\ tasks' = tasks \ {task}
        /\ last' = [seq |-> task.seq, key |-> task.key, handler |-> "handle_message",
                    branch |-> h.branch, phase |-> phase, text |-> task.text,
                    before |-> Store, raised |-> acc.raised, out |-> acc.out,
                    calls |-> acc.calls, suspended |-> FALSE,
                    status |-> outcome.status, response |-> outcome.response]
        /\ UNCHANGED <<queue, arrived, extraction, applied>>

\* the handler of task goes on after the await with outcome; phase tells how
\* the await ended: "return", "timeout" or "error"
Resume(task, outcome, phase, env) ==
    \E run \in {Ran(ask_ai_resume(Store, task, outcome), env)} :
        Resumed(task, outcome, phase, run)

\* ask_ollama returns in its thread before the timeout
WorkerReturn(w, response, env) ==
    /\ w \in workers
    /\ \E t \in tasks :
          /\ t.seq = w.seq
          /\ Resume(t, OutcomeOk(response), "return", env)
    /\ workers' = workers \ {w}
    /\ returned' = returned \cup {w}

\* an await without a timeout
AiTimeout_never(t, env) ==
    /\ t \in tasks
    /\ FALSE
    /\ UNCHANGED vars

\* wait_for gives up after AI_RESPONSE_TIMEOUT seconds; the thread goes on
AiTimeout(t, env) ==
    /\ t \in tasks
    /\ \E w \in workers : w.seq = t.seq
    /\ Resume(t, OutcomeTimeout, "timeout", env)
    /\ UNCHANGED <<workers, returned>>

\* the thread cannot be started: to_thread raises
AiError(t, env) ==
    /\ t \in tasks
    /\ Resume(t, OutcomeError, "error", env)
    /\ workers' = {w \in workers : w.seq # t.seq}
    /\ UNCHANGED returned

\* ask_ollama returns after wait_for has given up: nobody reads the result
OrphanReturn(w) ==
    /\ w \in workers
    /\ \A t \in tasks : t.seq # w.seq
    /\ workers' = workers \ {w}
    /\ returned' = returned \cup {w}
    /\ UNCHANGED <<user_state, user_info, filter_info, ai_sessions, help_messages,
                   users, feedback, ai_dialogs, queue, tasks, arrived, last, hist_log,
                   extraction, applied>>

\* the environments of the run Dispatch starts
DispatchEnvs ==
    IF queue = <<>> THEN {}
    ELSE UNION {RunEnvs(steps) :
                    steps \in {handle(Store, Head(queue).upd, NominalEnv).steps}}

\* the environments of the run that goes on after the await of task
ResumeEnvs(task) ==
    UNION {RunEnvs(steps) : steps \in {ask_ai_resume(Store, task, OutcomeTimeout).steps}}

\* the steps of the system for the updates of universe, at most max of
\* them, the model replies of replies and the environments of envs
NextOver(universe, max, replies, envs) ==
    \/ \E upd \in universe : Receive(upd, max)
    \/ \E env \in DispatchEnvs \cap envs : Dispatch(env)
    \/ \E w \in workers, response \in replies :
          \E t \in {x \in tasks : x.seq = w.seq} :
             \E env \in ResumeEnvs(t) \cap envs : WorkerReturn(w, response, env)
    \/ \E t \in tasks : \E env \in ResumeEnvs(t) \cap envs : AiTimeout(t, env)
    \/ \E t \in tasks : \E env \in ResumeEnvs(t) \cap envs : AiError(t, env)
    \/ \E w \in workers : OrphanReturn(w)

Next == NextOver(Updates, MaxUpdates, Replies, Envs)

Spec == Init /\ [][Next]_vars


(***************************************************************************)
(* The long AI dialogue: one chat presses "ask AI" and sends questions,    *)
(* some answered from the canned answers and some by the model, so that    *)
(* the history deque fills up and turns over.                              *)
(***************************************************************************)
HistoryUpdates == {Button(1, DATA.ask_ai), Text(1, INPUT.canned), Text(1, INPUT.question)}

NextHistory == NextOver(HistoryUpdates, MaxTurns, {REPLY.no_data}, {NominalEnv})

SpecHistory == Init /\ [][NextHistory]_vars

(***************************************************************************)
(* The AI dialogue of chat 1 next to chat 2: the "ask AI" button, a         *)
(* question for the model, a question with a canned answer, the answers to *)
(* the offer of photos, the cancellation keyword, the feedback button and  *)
(* the filter button, which starts another flow.                           *)
(***************************************************************************)
AiUpdates ==
    {Button(1, DATA.ask_ai), Button(1, DATA.filter), Button(1, DATA.feedback_like),
     Text(1, INPUT.stop), Text(1, INPUT.yes), Text(1, INPUT.no),
     Text(1, INPUT.question), Text(1, INPUT.canned),
     Text(2, INPUT.question), Button(2, DATA.ask_ai)}

NextAi == NextOver(AiUpdates, MaxUpdates, Replies, Envs)

SpecAi == Init /\ [][NextAi]_vars

(***************************************************************************)
(* Properties.  A property of what a handler does is stated for the runs   *)
(* that return; last.raised marks the runs an exception has left.          *)
(***************************************************************************)

\* C1: for every chat the history of the AI session holds at most 10
\* entries, and they are the latest entries appended, in the order of
\* appending: the 11th append drops exactly the oldest entry and keeps
\* entries 2..11 in order.
C1_HistoryKeepsLatestTen ==
    \A k \in Keys :
        ai_sessions[k] # Nothing =>
            LET history == ai_sessions[k][1].history
                n == Len(hist_log[k])
            IN  /\ Len(history) <= 10
                /\ Len(history) = IF n <= 10 THEN n ELSE 10
                /\ history = SubSeq(hist_log[k], n - Len(history) + 1, n)

\* C1 witness: eleven entries have been appended and the deque holds the
\* 2nd to the 11th
C1_EleventhAppended ==
    \E k \in Keys :
        /\ ai_sessions[k] # Nothing
        /\ Len(hist_log[k]) = 11
        /\ ai_sessions[k][1].history = Tail(hist_log[k])
        /\ hist_log[k][1] # hist_log[k][2]

C3_StopCancelsEverywhere ==
    (/\ last.handler = "handle_message"
     /\ last.phase = "run"
     /\ ~last.raised
     /\ last.text = INPUT.stop
     /\ last.before.user_state[last.key] \in
            {"filter_brand", "search_by_name", "ask_ai", "ask_ai_confirm"})
    => /\ user_state[last.key] = None
       /\ filter_info[last.key] = Nothing
       /\ ai_sessions[last.key] = Nothing
       /\ last.calls = <<>>
       /\ ~last.suspended

\* C4: when the AI call of a question does not return within the timeout,
\* the user receives the fixed timeout text, the chat's state is AskAI after
\* the turn, and the audit record written for the turn has status "timeout".
C4_TimeoutFallback ==
    (last.phase = "timeout" /\ ~last.raised) =>
        /\ \E i \in 1..Len(last.out) :
              last.out[i].tag = "answer" /\ last.out[i].text = TIMEOUT_FALLBACK
        /\ \A i \in 1..Len(last.out) :
              last.out[i].tag = "answer" => last.out[i].text = TIMEOUT_FALLBACK
        /\ user_state[last.key] = "ask_ai"
        /\ Len(ai_dialogs) <= Len(last.before.ai_dialogs) + 1
        /\ \A i \in (Len(last.before.ai_dialogs) + 1)..Len(ai_dialogs) :
              /\ ai_dialogs[i].status = "timeout"
              /\ ai_dialogs[i].question = last.text
              /\ ai_dialogs[i].answer = TIMEOUT_FALLBACK

\* C4 witness: a turn has ended by the timeout and its audit record is stored
C4_TimedOutTurn ==
    /\ last.phase = "timeout"
    /\ ~last.raised
    /\ Len(ai_dialogs) = Len(last.before.ai_dialogs) + 1
    /\ ai_dialogs[Len(ai_dialogs)].status = "timeout"
    /\ user_state[last.key] = "ask_ai"


\* C5: when a cancellation keyword of a chat has been processed while an AI
\* call of that chat was still outstanding, the result of the call is
\* discarded: the step in which the call returns changes neither the chat's
\* state nor its AI session, so no session is created or modified and the
\* chat is not moved to AskAIConfirm.
C5_StaleResultDiscarded ==
    [][\A w \in workers :
          (w.cancelled /\ w \in returned' /\ w \notin returned) =>
              /\ user_state'[w.key] = user_state[w.key]
              /\ ai_sessions'[w.key] = ai_sessions[w.key]
              /\ user_state'[w.key] # "ask_ai_confirm"]_vars

\* C5 witness: the call of a chat has returned after the chat's "стоп" was
\* processed, and the chat is in Idle without an AI session
C5_ReturnedAfterStop ==
    \E w \in returned :
        /\ w.cancelled
        /\ user_state[w.key] = None
        /\ ai_sessions[w.key] = Nothing

\* C6: per chat at most one handler is between reading the chat's state and
\* finishing its writes: while a handler of a chat is suspended in the AI
\* call, no other step changes the state, the filter draft or the AI session
\* of that chat, and handlers start in the order in which their updates
\* arrived.
C6_OneHandlerPerChat ==
    [][/\ \A t \in tasks :
             \/ t \notin tasks' /\ last'.seq = t.seq
             \/ /\ user_state'[t.key] = user_state[t.key]
                /\ filter_info'[t.key] = filter_info[t.key]
                /\ ai_sessions'[t.key] = ai_sessions[t.key]
       /\ \A k \in Keys : Cardinality({t \in tasks' : t.key = k}) <= 1
       /\ (last'.phase = "run" /\ last'.seq # last.seq) =>
              /\ last'.seq > last.seq
              /\ \A i \in 1..Len(queue') : queue'[i].seq > last'.seq]_vars

\* C6 witness: an update of a chat waits while the handler of that chat's
\* earlier update is suspended in the AI call
C6_SameChatWaits ==
    \E t \in tasks :
        /\ queue # <<>>
        /\ key_of(Head(queue).upd) = t.key
        /\ Head(queue).seq > t.seq

\* C7 as stated: while an AI call of chat A is outstanding, an update of
\* another chat B that is next in the queue can be handled at once.
C7_OtherChatServed ==
    \A t \in tasks :
        (queue # <<>> /\ key_of(Head(queue).upd) # t.key) =>
            ENABLED (\E env \in DispatchEnvs : Dispatch(env))

\* C8: selecting "ask AI", from any state, sets the chat's state to AskAI and
\* leaves its AI session with empty history, empty last_suggestions and no
\* last_feedback, whatever the session held before.
C8_AskAiResets ==
    (last.handler = "handle_category" /\ last.branch = "ask_ai" /\ ~last.raised) =>
        /\ user_state[last.key] = "ask_ai"
        /\ ai_sessions[last.key] # Nothing
        /\ ai_sessions[last.key][1].history = <<>>
        /\ ai_sessions[last.key][1].last_suggestions = <<>>
        /\ ai_sessions[last.key][1].last_feedback = Nothing

\* C8 witness: "ask AI" was selected in AskAIConfirm with a session that held
\* history, suggestions and feedback
C8_ResetOfUsedSession ==
    /\ last.handler = "handle_category"
    /\ last.branch = "ask_ai"
    /\ ~last.raised
    /\ last.before.user_state[last.key] = "ask_ai_confirm"
    /\ last.before.ai_sessions[last.key] # Nothing
    /\ last.before.ai_sessions[last.key][1].history # <<>>
    /\ last.before.ai_sessions[last.key][1].last_suggestions # <<>>
    /\ last.before.ai_sessions[last.key][1].last_feedback # Nothing
    /\ ai_sessions[last.key] = Some(new_session)

\* C9: after an AI turn (answer, timeout or error) the chat's state is
\* AskAIConfirm if and only if the extractor returned at least one car for
\* the reply, and AskAI otherwise; the reply "Рекомендую: нет данных" yields
\* no car and no move to AskAIConfirm.
C9_ConfirmIffSuggestions ==
    (last.phase \in {"return", "timeout", "error"} /\ ~last.raised) =>
        /\ user_state[last.key] = "ask_ai_confirm"
               <=> match_cars_from_response(last.response) # <<>>
        /\ user_state[last.key] \in {"ask_ai", "ask_ai_confirm"}
        /\ last.response = REPLY.no_data =>
               /\ user_state[last.key] = "ask_ai"
               /\ ai_sessions[last.key][1].last_suggestions = <<>>

\* C9 witness: turns of both kinds have happened: the latest one, answered
\* "Рекомендую: нет данных", left the chat in AskAI
C9_NoDataStaysInAskAi ==
    /\ last.phase = "return"
    /\ ~last.raised
    /\ last.response = REPLY.no_data
    /\ user_state[last.key] = "ask_ai"

\* C10: in AskAIConfirm an affirmative answer sends one card for each car of
\* the cached last_suggestions, in their stored order, and then leaves
\* last_suggestions empty and the state AskAI.
C10_YesDeliversSuggestions ==
    (last.branch = "confirm_yes" /\ ~last.raised) =>
        LET cached == last.before.ai_sessions[last.key][1].last_suggestions
            cards == SelectSeq(last.out, LAMBDA m : m.tag = "card")
        IN  /\ lower(last.text) \in YES_ANSWERS
            /\ Len(cards) = Len(cached)
            /\ \A i \in 1..Len(cached) :
                  cards[i].text = cached[i].brand \o <<32>> \o cached[i].model
            /\ ai_sessions[last.key][1].last_suggestions = <<>>
            /\ user_state[last.key] = "ask_ai"

\* C10 witness: the answer " Да" has delivered two cached cars
C10_TwoCardsDelivered ==
    /\ last.branch = "confirm_yes"
    /\ ~last.raised
    /\ last.before.user_state[last.key] = "ask_ai_confirm"
    /\ Len(last.before.ai_sessions[last.key][1].last_suggestions) = 2
    /\ Len(SelectSeq(last.out, LAMBDA m : m.tag = "card")) = 2

\* C11: in AskAIConfirm a negative answer sends no card, leaves
\* last_suggestions empty and sets the state to AskAI.
C11_NoDiscardsSuggestions ==
    (last.branch = "confirm_no" /\ ~last.raised) =>
        /\ lower(last.text) \in NO_ANSWERS
        /\ \A i \in 1..Len(last.out) : last.out[i].tag # "card"
        /\ user_state[last.key] = "ask_ai"
        /\ ai_sessions[last.key] # Nothing =>
               ai_sessions[last.key][1].last_suggestions = <<>>

\* C12: when the AI backend fails for a reason other than the timeout of
\* wait_for (the request fails or times out inside ask_ollama, or the call
\* raises), the user receives the fixed error text, which differs from the
\* timeout text, the audit record of the turn has status "error" with the
\* error detail in its error field, and the detail is not in the text shown.
C12_BackendFailureIsError ==
    (/\ ~last.raised
     /\ \/ last.phase = "error"
        \/ last.phase = "return" /\ last.response \in OLLAMA_FAILURE_TEXTS) =>
        /\ ERROR_FALLBACK # TIMEOUT_FALLBACK
        /\ \A i \in 1..Len(last.out) :
              last.out[i].tag = "answer" =>
                  /\ last.out[i].text = ERROR_FALLBACK
                  /\ ~contains(last.out[i].text, OutcomeError.error[1])
        /\ \A i \in (Len(last.before.ai_dialogs) + 1)..Len(ai_dialogs) :
              /\ ai_dialogs[i].status = "error"
              /\ ai_dialogs[i].error = OutcomeError.error

\* C13: when every message of an AI turn has been sent, the handler returns
\* whether or not the audit record can be written: the answer is among the
\* messages sent, and the chat's state and AI session (history,
\* last_suggestions, last_feedback) are those of the turn whose write
\* succeeds; only the table of audit records may differ.
C13_AuditFailureSwallowed ==
    [][\A t \in tasks :
          (/\ last'.seq = t.seq
           /\ last'.phase \in {"return", "timeout", "error"}
           /\ \E i \in 1..Len(last'.out) :
                 last'.out[i].tag \in {"offer_photos", "ask_more"}) =>
              LET outcome == [status |-> last'.status, response |-> last'.response,
                              error |-> IF last'.status = "error"
                                        THEN OutcomeError.error ELSE Nothing]
                  written == Run(ask_ai_resume(Store, t, outcome).steps, Store,
                                 NominalEnv)
              IN  /\ ~last'.raised
                  /\ \E i \in 1..Len(last'.out) :
                        /\ last'.out[i].tag = "answer"
                        /\ last'.out[i].text = last'.response
                  /\ user_state' = written.st.user_state
                  /\ ai_sessions' = written.st.ai_sessions
                  /\ ai_dialogs' \in {written.st.ai_dialogs, ai_dialogs}]_vars

\* C13 witness: a turn with suggestions has returned without an audit
\* record: the answer was sent, the cars are cached, the state is AskAIConfirm
C13_AuditWriteFailed ==
    /\ last.phase = "return"
    /\ ~last.raised
    /\ Len(ai_dialogs) = Len(last.before.ai_dialogs)
    /\ \E i \in 1..Len(last.out) : last.out[i].tag = "answer"
    /\ user_state[last.key] = "ask_ai_confirm"
    /\ Len(ai_sessions[last.key][1].last_suggestions) = 2
    /\ ai_sessions[last.key][1].last_feedback # Nothing

(***************************************************************************)
(* The AI dialogue under the timer of wait_for (lines 579-582): the await  *)
(* of an AI call whose thread has not returned ends after                  *)
(* AI_RESPONSE_TIMEOUT seconds.  Nothing is assumed of the backend, whose  *)
(* thread may never return, nor of the arrival of further updates.         *)
(***************************************************************************)
LiveUpdates ==
    {Button(1, DATA.ask_ai), Text(1, INPUT.question), Text(1, INPUT.canned),
     Text(1, INPUT.stop), Text(2, INPUT.question)}

NextLive == NextOver(LiveUpdates, MaxUpdates, Replies, Envs)

SpecLive ==
    /\ Init
    /\ [][NextLive]_vars
    /\ WF_vars(\E t \in tasks : \E env \in ResumeEnvs(t) : AiTimeout(t, env))

\* C14: every question of AskAI whose handler awaits the AI call
\* eventually gets past the await, whether or not the backend responds:
\* the handler ends, the answer or a fallback text has been sent unless the
\* transport has failed, no handler is left running, and the chat is in
\* AskAI or AskAIConfirm, where its next text is read.
C14_QuestionAnswered ==
    \A s \in 1..MaxUpdates :
        (\E t \in tasks : t.seq = s) ~>
            (/\ last.seq = s
             /\ last.phase \in {"return", "timeout", "error"}
             /\ tasks = {}
             /\ user_state[last.key] \in {"ask_ai", "ask_ai_confirm"}
             /\ last.raised \/ \E i \in 1..Len(last.out) :
                                  /\ last.out[i].tag = "answer"
                                  /\ last.out[i].text = last.response)

\* C14 witness: the thread of ask_ollama has not returned, the timeout has
\* ended the turn with the fallback text and no handler is running
C14_AnsweredWithoutBackend ==
    /\ last.phase = "timeout"
    /\ ~last.raised
    /\ \E w \in workers : w.seq = last.seq
    /\ \E i \in 1..Len(last.out) :
          last.out[i].tag = "answer" /\ last.out[i].text = TIMEOUT_FALLBACK
    /\ tasks = {}
    /\ user_state[last.key] = "ask_ai"
(***************************************************************************)
(* The extractor applied to replies that end with a list of tokens: chat 1 *)
(* asks the question and the language model answers with one of the        *)
(* replies; the cars extracted are those the turn stores as the chat's     *)
(* last_suggestions (main.py, lines 591-594) and sends on "да".            *)
(***************************************************************************)
ExtractUpdates == {Button(1, DATA.ask_ai), Text(1, INPUT.question), Text(1, INPUT.yes)}

NextExtract == NextOver(ExtractUpdates, MaxUpdates, ListReplies \cup ContinuedReplies,
                        {NominalEnv})

SpecExtract == Init /\ [][NextExtract]_vars

\* the tokens of the text after the last marker, the sentinels left out
list_tokens(response) ==
    LET idx == rfind(lower(response), MARKER)
    IN  SelectSeq(recommendation_tokens(
                      strip(SubSeq(response, idx + Len(MARKER) + 1, Len(response)))),
                  LAMBDA t : lower(t) \notin NO_DATA_TOKENS)

\* <<i, j>>: token i matches record j of the catalog
token_hits(response) ==
    LET tokens == list_tokens(response)
        catalog == extractor_catalog(get_all_cars)
    IN  {p \in (1..Len(tokens)) \X (1..Len(catalog)) :
            token_matches(catalog[p[2]], lower(tokens[p[1]]))}

\* the first token that matches record j, then j
first_hit(hits, j) ==
    CHOOSE p \in hits : p[2] = j /\ \A q \in hits : q[2] = j => p[1] <= q[1]

HitLess(p, q) == p[1] < q[1] \/ (p[1] = q[1] /\ p[2] < q[2])

\* cars is the list of the records the tokens of response match, each once,
\* ordered by the first token that matches them and, for one token, by their
\* place in the catalog, cut after MAX_MATCHES records
MatchedInTokenOrder(response, cars) ==
    LET hits == token_hits(response)
        catalog == extractor_catalog(get_all_cars)
        matched == {p[2] : p \in hits}
        at(k) == CHOOSE j \in 1..Len(catalog) : catalog[j] = cars[k]
    IN  /\ \A k \in 1..Len(cars) : \E j \in matched : catalog[j] = cars[k]
        /\ \A k, l \in 1..Len(cars) :
              k < l => HitLess(first_hit(hits, at(k)), first_hit(hits, at(l)))
        /\ \A j \in matched :
              \/ \E k \in 1..Len(cars) : cars[k] = catalog[j]
              \/ Len(cars) = MAX_MATCHES
        /\ Len(cars) <= MAX_MATCHES

\* C15: for a reply whose text after the marker is a comma-separated list of
\* tokens, the cars the extractor returns, which the turn stores as the chat's
\* last_suggestions, are the catalog records the tokens match, in token order,
\* each once; for "Неплохой выбор. Рекомендую: Camry 50, Elantra" they are
\* Toyota Camry 50 and then Hyundai Elantra and no other
C15_MatchesInTokenOrder ==
    (/\ last.phase = "return"
     /\ ~last.raised
     /\ last.response \in ListReplies
     /\ ai_sessions[last.key] # Nothing) =>
        LET cars == ai_sessions[last.key][1].last_suggestions
        IN  /\ cars = match_cars_from_response(last.response)
            /\ MatchedInTokenOrder(last.response, cars)
            /\ last.response = REPLY.two =>
                  /\ Len(cars) = 2
                  /\ cars[1].brand = <<84, 111, 121, 111, 116, 97>>
                  /\ cars[1].model = <<67, 97, 109, 114, 121, 32, 53, 48>>
                  /\ cars[2].brand = <<72, 121, 117, 110, 100, 97, 105>>
                  /\ cars[2].model = <<69, 108, 97, 110, 116, 114, 97>>

\* a turn answered with the brand-only list "Рекомендую: Toyota, Elantra.":
\* both Toyota records in catalog order, then the Elantra
C15_BrandThenModel ==
    /\ last.phase = "return"
    /\ ~last.raised
    /\ last.response = LIST_REPLY.brand
    /\ ai_sessions[last.key] # Nothing
    /\ Len(ai_sessions[last.key][1].last_suggestions) = 3
    /\ ai_sessions[last.key][1].last_suggestions[3].model = <<69, 108, 97, 110, 116, 114, 97>>

\* C16: when the reply is one that ends with a well-formed line
\* "Рекомендую: X, Y" followed by further text without the marker, on the same
\* line or on following lines, the set of records extracted, which the turn
\* stores as the chat's last_suggestions, is the set extracted from the reply
\* without that text
C16_TrailingTextIgnored ==
    \A c \in Continued :
        (/\ last.phase = "return"
         /\ ~last.raised
         /\ last.response = c.base \o c.tail
         /\ ~contains(lower(c.tail), MARKER)
         /\ ai_sessions[last.key] # Nothing) =>
            Range(ai_sessions[last.key][1].last_suggestions)
                = Range(match_cars_from_response(c.base))

(***************************************************************************)
(* The search by price of chat 1, next to an AI dialogue, under every      *)
(* environment.                                                            *)
(***************************************************************************)
SearchUpdates ==
    {Button(1, DATA.search_price), Text(1, INPUT.price), Text(1, PRICE_INPUT.boundary),
     Text(1, PRICE_INPUT.huge), Button(1, DATA.ask_ai), Text(1, INPUT.question)}

NextSearch == NextOver(SearchUpdates, MaxUpdates, {REPLY.no_data}, Envs)

SpecSearch == Init /\ [][NextSearch]_vars

\* the first maximal run of decimal digits of text
first_digit_run(text) ==
    LET from == SetMin({i \in 1..Len(text) : IsDigit(text[i])})
        to == SetMax({j \in from..Len(text) : \A k \in from..j : IsDigit(text[k])})
    IN  SubSeq(text, from, to)

\* C17: in SearchByPrice a text with a digit run makes the handler query the
\* catalog with the integer p of the first digit run; the cars shown are the
\* cars whose price lies in [p - 2000000, p + 2000000], ends included; for
\* "хочу машину за 12000000" p is 12000000; afterwards the state is Idle
C17_PriceBandQueried ==
    (/\ last.handler = "handle_message"
     /\ last.phase = "run"
     /\ last.before.user_state[last.key] = "search_by_price"
     /\ \E i \in 1..Len(last.text) : IsDigit(last.text[i])) =>
        /\ \E i \in 1..Len(last.calls) : last.calls[i].tag = "search_car_by_price"
        /\ LET p == DigitsValue(first_digit_run(last.text))
               band == SelectSeq(cars_table,
                           LAMBDA c : LET n == sql_to_number(sql_remove(sql_remove(c.price, 8376), 32))
                                      IN  p - 2000000 <= n /\ n <= p + 2000000)
               cards == SelectSeq(last.out, LAMBDA m : m.tag = "card")
           IN  /\ \A i \in 1..Len(last.calls) :
                     last.calls[i].tag = "search_car_by_price" => last.calls[i].args = p
               /\ last.text = INPUT.price => p = 12000000
               /\ ~last.raised =>
                     /\ Len(cards) = Len(band)
                     /\ \A i \in 1..Len(band) : cards[i].text = CardText(band[i])
                     /\ user_state[last.key] = None

(***************************************************************************)
(* The filter flow of chat 1, with a category browsed in between, next to  *)
(* an AI dialogue, under every environment.                                *)
(***************************************************************************)
FilterUpdates ==
    {Button(1, DATA.filter), Text(1, INPUT.skip), Text(1, FILTER_INPUT.brand),
     Text(1, FILTER_INPUT.model), Button(1, CATEGORY.sedan), Button(1, DATA.ask_ai),
     Text(1, INPUT.question)}

NextFilter == NextOver(FilterUpdates, MaxUpdates, {REPLY.no_data}, Envs)

SpecFilter == Init /\ [][NextFilter]_vars

\* the constraint a text stands for: none for "пропустить" in any letter case
Constraint(text) ==
    IF text = <<>> \/ lower(text) = <<1087, 1088, 1086, 1087, 1091, 1089, 1090, 1080, 1090, 1100>>
    THEN Nothing ELSE Some(text)

\* C18: the state becomes FilterModel only when a text is handled in
\* FilterBrand, and the draft then holds the constraint of that text
\* ("пропустить" in any letter case: none); while the state stays FilterModel
\* the brand of the draft does not change; the handler of a text received in
\* FilterModel queries the catalog exactly once, with that brand and the
\* constraint of the text, and when it returns the chat has no draft and is Idle
C18_FilterFlow ==
    [][\A k \in Keys :
          /\ (user_state'[k] = "filter_model" /\ user_state[k] # "filter_model") =>
                /\ user_state[k] = "filter_brand"
                /\ last'.seq # last.seq
                /\ last'.handler = "handle_message"
                /\ last'.key = k
                /\ filter_info'[k] = Some([brand |-> Constraint(last'.text)])
          /\ (user_state'[k] = "filter_model" /\ user_state[k] = "filter_model") =>
                /\ filter_info[k] # Nothing
                /\ filter_info'[k] # Nothing
                /\ filter_info'[k][1].brand = filter_info[k][1].brand
          /\ (/\ user_state[k] = "filter_model"
              /\ last'.seq # last.seq
              /\ last'.handler = "handle_message"
              /\ last'.key = k) =>
                LET queries == SelectSeq(last'.calls, LAMBDA q : q.tag = "get_cars_by_filters")
                    found == get_cars_by_filters(filter_info[k][1].brand, Constraint(last'.text))
                    cards == SelectSeq(last'.out, LAMBDA m : m.tag = "card")
                IN  /\ Len(queries) = 1
                    /\ queries[1].args = <<filter_info[k][1].brand, Constraint(last'.text)>>
                    /\ ~last'.raised =>
                          /\ Len(cards) = Len(found)
                          /\ \A i \in 1..Len(found) : cards[i].text = CardText(found[i])
                          /\ filter_info'[k] = Nothing
                          /\ user_state'[k] = None]_vars

\* a flow that skipped the brand with "Пропустить", gave the model "camry" and
\* showed the Toyota Camry 50
C18_BrandSkipped ==
    /\ last.handler = "handle_message"
    /\ last.phase = "run"
    /\ ~last.raised
    /\ last.before.user_state[last.key] = "filter_model"
    /\ last.before.filter_info[last.key] = Some([brand |-> Nothing])
    /\ last.text = FILTER_INPUT.model
    /\ Len(SelectSeq(last.out, LAMBDA m : m.tag = "card")) = 1
    /\ filter_info[last.key] = Nothing
    /\ user_state[last.key] = None

(***************************************************************************)
(* The onboarding of chat 2, whose user has not registered, with the AI    *)
(* dialogue it can leave the onboarding for.                                *)
(***************************************************************************)
OnboardingUpdates ==
    {Command(2), Text(2, ONBOARDING_INPUT.name), Text(2, ONBOARDING_INPUT.age),
     Text(2, ONBOARDING_INPUT.city), Button(2, DATA.ask_ai)}

\* the first reply_text of a run may fail and questions.db may fail
OnboardingEnvs ==
    {env \in Envs : env.loading_ok /\ env.protected_ok /\ env.fail_at <= 1}

NextOnboarding == NextOver(OnboardingUpdates, MaxOnboarding, {REPLY.no_data}, OnboardingEnvs)

SpecOnboarding == Init /\ [][NextOnboarding]_vars

\* the step is the run of the handler of a text of chat k
TextRun(k) ==
    /\ last'.seq # last.seq
    /\ last'.handler = "handle_message"
    /\ last'.key = k

\* C19: AskName is entered only by /start, AskAge only by a text handled in
\* AskName, AskCity only by a text handled in AskAge, and the handler of a
\* text in AskCity that returns leaves the chat Idle; the three texts store
\* the name, the age and the city, one field each; table users changes only
\* when a text is handled in AskCity, by one save_user that writes the three
\* fields; and when that handler has set the state to Idle the profile holds
\* the identifier of the row
C19_Onboarding ==
    [][\A k \in Keys :
          /\ (user_state'[k] = "ask_name" /\ user_state[k] # "ask_name") =>
                last'.seq # last.seq /\ last'.handler = "start" /\ last'.key = k
          /\ (user_state'[k] = "ask_age" /\ user_state[k] # "ask_age") =>
                /\ user_state[k] = "ask_name"
                /\ TextRun(k)
                /\ user_info'[k] = Some([name |-> last'.text])
          /\ (user_state'[k] = "ask_city" /\ user_state[k] # "ask_city") =>
                /\ user_state[k] = "ask_age"
                /\ TextRun(k)
                /\ user_info'[k] = Some([name |-> user_info[k][1].name, age |-> last'.text])
          /\ (users' # users /\ last'.key = k) =>
                /\ user_state[k] = "ask_city"
                /\ TextRun(k)
                /\ Len(SelectSeq(last'.calls, LAMBDA q : q.tag = "save_user")) = 1
                /\ Len(users') = Len(users) + 1
                /\ SubSeq(users', 1, Len(users)) = users
                /\ users'[Len(users')].chat_id = k
                /\ users'[Len(users')].name = user_info[k][1].name
                /\ users'[Len(users')].age = user_info[k][1].age
                /\ users'[Len(users')].city = last'.text
          /\ (user_state[k] = "ask_city" /\ TextRun(k)) =>
                /\ ~last'.raised => user_state'[k] = None /\ users' # users
                /\ user_state'[k] \in {None, "ask_city"}
                /\ user_state'[k] = None =>
                      /\ users' # users
                      /\ user_info'[k] =
                             Some([name |-> user_info[k][1].name, age |-> user_info[k][1].age,
                                   city |-> last'.text, id |-> users'[Len(users')].id])]_vars

\* chat 2 has completed the onboarding: its row is in table users and its
\* profile holds the row's identifier
C19_Registered ==
    /\ last.handler = "handle_message"
    /\ last.before.user_state[2] = "ask_city"
    /\ last.key = 2
    /\ ~last.raised
    /\ user_state[2] = None
    /\ Len(users) = 2
    /\ users[2].name = ONBOARDING_INPUT.name
    /\ users[2].age = ONBOARDING_INPUT.age
    /\ users[2].city = ONBOARDING_INPUT.city
    /\ user_info[2] # Nothing
    /\ user_info[2][1].id = users[2].id

(***************************************************************************)
(* The AI dialogue of chat 1 and the cancellation keywords, in the letter  *)
(* cases and with the blanks a user may type, under every environment.     *)
(***************************************************************************)
StopUpdates ==
    {Button(1, DATA.ask_ai), Text(1, INPUT.question), Text(1, INPUT.stop),
     Text(1, STOP_INPUT.exit), Text(1, STOP_INPUT.menu)}

NextStop == NextOver(StopUpdates, MaxUpdates, {REPLY.two}, Envs)

SpecStop == Init /\ [][NextStop]_vars

\* "стоп", "выход", "меню"
CancellationKeywords ==
    {<<1089, 1090, 1086, 1087>>, <<1074, 1099, 1093, 1086, 1076>>,
     <<1084, 1077, 1085, 1102>>}

\* C20: when a text whose trimmed, lowercased form is "стоп", "выход" or
\* "меню" has been handled in AskAI or AskAIConfirm, the state is Idle and the
\* chat has no AI session, so that the history, last_suggestions and
\* last_feedback of the dialogue can no longer be read; the handler made no
\* lookup of a canned answer and no AI call
C20_KeywordEndsDialogue ==
    (/\ last.handler = "handle_message"
     /\ last.phase = "run"
     /\ last.before.user_state[last.key] \in {"ask_ai", "ask_ai_confirm"}
     /\ lower(last.text) \in CancellationKeywords) =>
        /\ user_state[last.key] = None
        /\ ai_sessions[last.key] = Nothing
        /\ last.calls = <<>>
        /\ ~last.suspended
        /\ \A t \in tasks : t.seq # last.seq
        /\ \A w \in workers : w.seq # last.seq

\* " Выход " has ended a dialogue in AskAIConfirm whose session held a
\* history, two suggestions and a feedback context
C20_ExitDropsUsedSession ==
    /\ last.handler = "handle_message"
    /\ last.phase = "run"
    /\ last.before.user_state[last.key] = "ask_ai_confirm"
    /\ last.text = strip(STOP_INPUT.exit)
    /\ last.text # STOP_INPUT.exit
    /\ last.before.ai_sessions[last.key] # Nothing
    /\ last.before.ai_sessions[last.key][1].history # <<>>
    /\ Len(last.before.ai_sessions[last.key][1].last_suggestions) = 2
    /\ last.before.ai_sessions[last.key][1].last_feedback # Nothing
    /\ ai_sessions[last.key] = Nothing
    /\ user_state[last.key] = None

\* C21: when a text that is neither a cancellation keyword nor an affirmative
\* nor a negative word has been handled in AskAIConfirm, the state is still
\* AskAIConfirm, the chat's AI session (history, last_suggestions,
\* last_feedback) and its other dictionaries are as before, no query and no
\* AI call was made, and nothing but the re-prompt was sent
C21_OtherAnswerReprompts ==
    (/\ last.handler = "handle_message"
     /\ last.phase = "run"
     /\ last.before.user_state[last.key] = "ask_ai_confirm"
     /\ lower(last.text) \notin STOP_WORDS \cup YES_ANSWERS \cup NO_ANSWERS) =>
        /\ user_state[last.key] = "ask_ai_confirm"
        /\ ai_sessions = last.before.ai_sessions
        /\ user_info = last.before.user_info
        /\ filter_info = last.before.filter_info
        /\ last.calls = <<>>
        /\ ~last.suspended
        /\ \A i \in 1..Len(last.out) : last.out[i].tag = "yes_no_reprompt"
        /\ Len(last.out) = IF last.raised THEN 0 ELSE 1

\* the text "седан" has been handled in AskAIConfirm while two suggestions
\* were waiting for the answer
C21_QuestionInsteadOfAnswer ==
    /\ last.handler = "handle_message"
    /\ last.phase = "run"
    /\ ~last.raised
    /\ last.before.user_state[last.key] = "ask_ai_confirm"
    /\ last.text = INPUT.question
    /\ Len(ai_sessions[last.key][1].last_suggestions) = 2
    /\ Len(last.out) = 1

\* C22: when a text without a decimal digit has been handled in
\* SearchByPrice, the state is still SearchByPrice, no catalog query was made,
\* the chat's other dictionaries are as before and nothing but the re-prompt
\* was sent; the chat is then where it was, so the same holds for the next
\* such text
C22_NoDigitReprompts ==
    (/\ last.handler = "handle_message"
     /\ last.phase = "run"
     /\ last.before.user_state[last.key] = "search_by_price"
     /\ \A i \in 1..Len(last.text) : ~IsDigit(last.text[i])) =>
        /\ user_state = last.before.user_state
        /\ user_info = last.before.user_info
        /\ filter_info = last.before.filter_info
        /\ ai_sessions = last.before.ai_sessions
        /\ last.calls = <<>>
        /\ ~last.suspended
        /\ \A i \in 1..Len(last.out) : last.out[i].tag = "price_reprompt"
        /\ Len(last.out) = IF last.raised THEN 0 ELSE 1

\* the third update of a run is a text without digits that was answered by
\* the re-prompt, the chat having been in SearchByPrice since the button
C22_RepromptedAgain ==
    /\ last.handler = "handle_message"
    /\ last.phase = "run"
    /\ ~last.raised
    /\ last.seq = 3
    /\ last.before.user_state[last.key] = "search_by_price"
    /\ last.text = INPUT.question
    /\ user_state[last.key] = "search_by_price"
    /\ Len(last.out) = 1

\* C23: the step that ends an AI turn (the handler goes on after the await
\* with the backend's reply, the timeout or the error) appends exactly one
\* row to ai_dialogs, which holds the turn's question, the text shown to the
\* user, the prompt given to the backend and the status "ok", "timeout" or
\* "error" of the outcome; no other step, a canned answer included, changes
\* ai_dialogs.  Stated for an environment in which the transport and
\* questions.db work
C23_OneAuditRowPerAiTurn ==
    [][IF \E t \in tasks : t \notin tasks'
       THEN \A t \in tasks \ tasks' :
               /\ last'.seq = t.seq
               /\ Len(ai_dialogs') = Len(ai_dialogs) + 1
               /\ SubSeq(ai_dialogs', 1, Len(ai_dialogs)) = ai_dialogs
               /\ LET row == ai_dialogs'[Len(ai_dialogs')]
                  IN  /\ row.question = t.text
                      /\ row.prompt = t.prompt
                      /\ row.answer = last'.response
                      /\ \E i \in 1..Len(last'.out) :
                            last'.out[i].tag = "answer" /\ last'.out[i].text = row.answer
                      /\ row.status = last'.status
                      /\ row.status = CASE last'.phase = "return" -> "ok"
                                        [] last'.phase = "timeout" -> "timeout"
                                        [] last'.phase = "error" -> "error"
                                        [] OTHER -> "none"
       ELSE ai_dialogs' = ai_dialogs]_vars

\* three AI turns have ended, one with each status, and a canned answer was
\* given afterwards: ai_dialogs has three rows
C23_ThreeRowsThenCanned ==
    /\ last.branch = "ask_ai_canned"
    /\ ~last.raised
    /\ Len(ai_dialogs) = 3
    /\ {ai_dialogs[i].status : i \in 1..3} = {"ok", "timeout", "error"}

\* C24: when the step that ends an AI turn delivered the reply neither by
\* editing the loading message nor as a fresh message, no exception has left
\* the handler, and the turn has made its state transition: the chat is in
\* "ask_ai_confirm" when the reply names catalog records and its session is
\* the one the turn began with
C24_UndeliveredReplyIsSilent ==
    (/\ last.phase \in {"return", "timeout", "error"}
     /\ \A i \in 1..Len(last.out) : last.out[i].tag # "answer") =>
        /\ ~last.raised
        /\ (/\ match_cars_from_response(last.response) # <<>>
            /\ last.before.user_state[last.key] = "ask_ai"
            /\ ai_sessions[last.key] # Nothing) =>
               user_state[last.key] = "ask_ai_confirm"

(***************************************************************************)
(* The extractor on its own: match_cars_from_response applied to a text    *)
(* and a catalog, next to the AI dialogue of chat 1 in which it is applied *)
(* to the replies of the model.                                            *)
(***************************************************************************)
InitMatch ==
    /\ user_state = [k \in Keys |-> None]
    /\ user_info = [k \in Keys |-> Nothing]
    /\ filter_info = [k \in Keys |-> Nothing]
    /\ ai_sessions = [k \in Keys |-> Nothing]
    /\ help_messages = [k \in Keys |-> <<>>]
    /\ users = initial_users
    /\ feedback = <<>>
    /\ ai_dialogs = <<>>
    /\ queue = <<>>
    /\ tasks = {}
    /\ workers = {}
    /\ returned = {}
    /\ arrived = 0
    /\ last = NoRun
    /\ hist_log = [k \in Keys |-> <<>>]
    /\ \E response \in MatchReplies, cars \in Catalogs :
          extraction = [response |-> response, cars |-> cars, result |-> Nothing]
    /\ applied = NoCall

\* match_cars_from_response(response) with get_all_cars() returning cars
Extract ==
    /\ extraction.result = Nothing
    /\ extraction' = [extraction EXCEPT
                         !.result = Some(match_cars(extraction.response, extraction.cars))]
    /\ UNCHANGED <<user_state, user_info, filter_info, ai_sessions, help_messages,
                   users, feedback, ai_dialogs, queue, tasks, workers, returned,
                   arrived, last, hist_log, applied>>

NextMatch ==
    \/ Extract
    \/ NextOver({Button(1, DATA.ask_ai), Text(1, INPUT.question)}, MaxUpdates,
                {LIST_REPLY.brand, LIST_REPLY.repeated}, {NominalEnv})

SpecMatch == InitMatch /\ [][NextMatch]_vars

\* the extractor has been applied to extraction.response and extraction.cars
Extracted == extraction.result # Nothing

\* C25: the list extracted from a text is the list extracted from the marker
\* followed by what the text has after the last occurrence of the marker,
\* whatever the letter case of the occurrences; it is empty when the text has
\* no marker, and when only whitespace follows the last marker
C25_LastMarkerDecides ==
    Extracted =>
        LET response == extraction.response
            found == Occurrences(lower(response), MARKER)
            after == SubSeq(response, SetMax(found) + Len(MARKER) + 1, Len(response))
        IN  IF found = {} THEN extraction.result[1] = <<>>
            ELSE /\ extraction.result[1] = match_cars(MARKER \o after, extraction.cars)
                 /\ (\A i \in 1..Len(after) : IsSpace(after[i])) =>
                        extraction.result[1] = <<>>

\* "Рекомендую: Elantra. РЕКОМЕНДУЮ: Camry 50" with the catalog of
\* init_cars_db: only Toyota Camry 50 is extracted
C25_SecondMarkerUsed ==
    /\ Extracted
    /\ extraction.response = MATCH_REPLY.twice
    /\ extraction.cars = get_all_cars
    /\ Len(extraction.result[1]) = 1
    /\ extraction.result[1][1].model = <<67, 97, 109, 114, 121, 32, 53, 48>>

\* the entries of the catalog the token matches, in catalog order
matching_entries(cars, token) ==
    {j \in 1..Len(cars) : token_matches(extractor_catalog(cars)[j], lower(token))}

\* C26: every record the extractor returns is the first record of the
\* catalog, in catalog order, that some token of the recommendation line
\* matches, so that a token adds one record at most
C26_FirstRecordPerToken ==
    Extracted =>
        LET tokens == list_tokens(extraction.response)
            cars == extraction.cars
            result == extraction.result[1]
        IN  \A k \in 1..Len(result) :
                \E i \in 1..Len(tokens) :
                    /\ matching_entries(cars, tokens[i]) # {}
                    /\ result[k] =
                           extractor_catalog(cars)[SetMin(matching_entries(cars, tokens[i]))]

\* key = (car["brand"], car["model"])
record_key(car) == <<car.brand, car.model>>

\* <<i, j>>: token i of the recommendation line matches entry j of cars
hits_in(response, cars) ==
    LET tokens == list_tokens(response)
    IN  {p \in (1..Len(tokens)) \X (1..Len(cars)) :
            token_matches(extractor_catalog(cars)[p[2]], lower(tokens[p[1]]))}

\* the first match of a record with this key: tokens in their order and, for
\* one token, the catalog in its order
first_match(hits, cars, key) ==
    CHOOSE p \in hits :
        /\ record_key(cars[p[2]]) = key
        /\ \A q \in hits : record_key(cars[q[2]]) = key => (p = q \/ HitLess(p, q))

\* no two records of list have the same (brand, model) and there are at most
\* MAX_MATCHES of them
DistinctAndCapped(list) ==
    /\ Len(list) <= MAX_MATCHES
    /\ \A k, l \in 1..Len(list) : k < l => record_key(list[k]) # record_key(list[l])

\* C27: the list the extractor returns for a text and a catalog has at most
\* 5 records, no two of them with the same (brand, model); each is the
\* catalog entry at which its (brand, model) was first matched, and the
\* records are in the order of these first matches.  The last_suggestions of
\* every session are a list with at most 5 records, no two of them with the
\* same (brand, model)
C27_DistinctOrderedCapped ==
    /\ Extracted =>
          LET result == extraction.result[1]
              cars == extraction.cars
              hits == hits_in(extraction.response, cars)
              at(k) == first_match(hits, cars, record_key(result[k]))
          IN  /\ DistinctAndCapped(result)
              /\ \A k \in 1..Len(result) :
                    /\ \E p \in hits : record_key(cars[p[2]]) = record_key(result[k])
                    /\ result[k] = extractor_catalog(cars)[at(k)[2]]
              /\ \A k, l \in 1..Len(result) : k < l => HitLess(at(k), at(l))
    /\ \A k \in Keys :
          ai_sessions[k] # Nothing => DistinctAndCapped(ai_sessions[k][1].last_suggestions)

\* "Рекомендую: Toyota, Elantra." with a catalog of seven Toyota rows, two of
\* them of one model: five records are returned, and chat 1 holds a
\* last_suggestions list from its own dialogue
C27_CapReached ==
    /\ Extracted
    /\ extraction.response = LIST_REPLY.brand
    /\ Cardinality({record_key(extraction.cars[p[2]]) :
                       p \in hits_in(extraction.response, extraction.cars)}) > MAX_MATCHES
    /\ \E i, j \in 1..Len(extraction.cars) :
          i # j /\ record_key(extraction.cars[i]) = record_key(extraction.cars[j])
    /\ Len(extraction.result[1]) = MAX_MATCHES
    /\ ai_sessions[1] # Nothing
    /\ Len(ai_sessions[1][1].last_suggestions) = 3

\* the tokens of the text after the last marker, sentinels included
line_tokens(response) ==
    LET idx == SetMax(Occurrences(lower(response), MARKER))
    IN  IF Occurrences(lower(response), MARKER) = {} THEN <<>>
        ELSE recommendation_tokens(
                 strip(SubSeq(response, idx + Len(MARKER) + 1, Len(response))))

\* f"{brand} {model}".lower()
lowered_name(car) == lower(car.brand \o <<32>> \o car.model)

\* C28: the (brand, model) pairs the extractor returns are among those of the
\* catalog rows whose lowercased "brand model" name has the lowercased text
\* of some token as a substring, the token being none of "нет данных", "нет",
\* "none" in any letter case; they are all of them unless the list has
\* reached 5 records.  A row whose name is only contained in a token, or
\* contains only a sentinel token, is not returned
C28_TokenInNameMatches ==
    Extracted =>
        LET tokens == line_tokens(extraction.response)
            cars == extraction.cars
            named == {i \in 1..Len(tokens) : lower(tokens[i]) \notin NO_DATA_TOKENS}
            expected == {record_key(cars[j]) : j \in
                            {j \in 1..Len(cars) :
                                \E i \in named :
                                    contains(lowered_name(cars[j]), lower(tokens[i]))}}
            got == {record_key(extraction.result[1][k]) :
                       k \in 1..Len(extraction.result[1])}
        IN  /\ got \subseteq expected
            /\ Len(extraction.result[1]) < MAX_MATCHES => got = expected

\* "Рекомендую: Toyota Camry 50 Hybrid, НЕТ, Hyundai Elantra" with a catalog
\* that has Toyota Camry 50, whose name the first token contains, and Нета V,
\* whose name contains the second token: only Hyundai Elantra is returned
C28_LongerTokenAndSentinel ==
    /\ Extracted
    /\ extraction.response = MATCH_REPLY.longer
    /\ \E j \in 1..Len(extraction.cars) :
          contains(lower(line_tokens(extraction.response)[1]),
                   lowered_name(extraction.cars[j]))
    /\ \E j \in 1..Len(extraction.cars) :
          contains(lowered_name(extraction.cars[j]),
                   lower(line_tokens(extraction.response)[2]))
    /\ Len(extraction.result[1]) = 1
    /\ extraction.result[1][1].model = <<69, 108, 97, 110, 116, 114, 97>>

\* C29: after a run of the callback handler for a category, the discounted
\* list, the help menu, a help category, a help question or the main menu,
\* and after a run of the feedback handler, the state of the chat is None
\* (Idle), whatever it was before the run
C29_BrowseEndsIdle ==
    (/\ ~last.raised
     /\ \/ /\ last.handler = "handle_category"
           /\ last.branch \in {"category", "discounted", "help_menu", "help_cat",
                               "help_q", "main_menu"}
        \/ last.handler = "handle_feedback") =>
        user_state[last.key] = None

\* C30: when a text other than a stop word is handled in "ask_ai" and
\* get_answer finds a stored answer for it, the handler does not wait for the
\* AI backend and no thread is started for the turn; the entries (user, text)
\* and (assistant, answer) are appended to the history, last_suggestions is
\* empty, last_feedback is the pair of the text and the answer, and the state
\* stays "ask_ai"; no audit row is written.  When the run returns, it has
\* sent the answer, the feedback prompt and the invitation to go on
C30_CannedAnswerTurn ==
    (/\ last.handler = "handle_message"
     /\ last.phase = "run"
     /\ last.before.user_state[last.key] = "ask_ai"
     /\ lower(last.text) \notin STOP_WORDS
     /\ get_answer(last.text) # Nothing) =>
        LET k == last.key
            answer == get_answer(last.text)[1].answer
            entries == << <<"user", last.text>>, <<"assistant", answer>> >>
        IN  /\ ~last.suspended
            /\ \A t \in tasks : t.seq # last.seq
            /\ \A w \in workers \cup returned : w.seq # last.seq
            /\ user_state[k] = "ask_ai"
            /\ ai_dialogs = last.before.ai_dialogs
            /\ ai_sessions[k] # Nothing
            /\ hist_log[k] = last.before.hist_log[k] \o entries
            /\ Len(ai_sessions[k][1].history) >= 2
            /\ SubSeq(ai_sessions[k][1].history, Len(ai_sessions[k][1].history) - 1,
                      Len(ai_sessions[k][1].history)) = entries
            /\ ai_sessions[k][1].last_suggestions = <<>>
            /\ ai_sessions[k][1].last_feedback =
                   Some([question |-> last.text, answer |-> answer])
            /\ ~last.raised =>
                  /\ [i \in 1..Len(last.out) |-> last.out[i].tag]
                         = <<"answer", "feedback_prompt", "ask_more">>
                  /\ last.out[1].text = answer

\* a canned answer was given in the turn after a turn the model answered: the
\* history has four entries and ai_dialogs one row
C30_CannedAfterAiTurn ==
    /\ last.branch = "ask_ai_canned"
    /\ ~last.raised
    /\ last.text = INPUT.canned
    /\ Len(ai_sessions[last.key][1].history) = 4
    /\ Len(ai_dialogs) = 1

(***************************************************************************)
(* The functions of database.py called on their own: get_answer with a     *)
(* text, save_user with a profile and a chat id on the table users.        *)
(***************************************************************************)
LookupTexts ==
    {INPUT.canned, INPUT.question, <<>>, LOOKUP_INPUT.upper, LOOKUP_INPUT.part,
     LOOKUP_INPUT.both, LOOKUP_INPUT.blank, LOOKUP_INPUT.longer}

\* get_answer(question)
GetAnswer(question) ==
    /\ applied' = [fn |-> "get_answer", args |-> <<question>>,
                   result |-> get_answer(question)]
    /\ UNCHANGED <<user_state, user_info, filter_info, ai_sessions, help_messages,
                   users, feedback, ai_dialogs, queue, tasks, workers, returned,
                   arrived, last, hist_log, extraction>>

\* the chat ids save_user is called with
SaveChats == {1, 2, 3}

\* save_user(name, age, city, chat_id)
SaveUser(name, age, city, chat_id) ==
    /\ users' = save_user_rows(users, name, age, city, chat_id)
    /\ applied' = [fn |-> "save_user", args |-> <<name, age, city, chat_id>>,
                   result |-> save_user_id(users, chat_id)]
    /\ UNCHANGED <<user_state, user_info, filter_info, ai_sessions, help_messages,
                   feedback, ai_dialogs, queue, tasks, workers, returned,
                   arrived, last, hist_log, extraction>>

NextCalls ==
    \/ \E question \in LookupTexts : GetAnswer(question)
    \/ \E name \in {ONBOARDING_INPUT.name, initial_users[1].name},
          city \in {ONBOARDING_INPUT.city, initial_users[1].city},
          chat_id \in SaveChats :
          SaveUser(name, ONBOARDING_INPUT.age, city, chat_id)

SpecCalls == Init /\ [][NextCalls]_vars

\* C31: get_answer, called with a text, returns None when the text is empty
\* after strip; else the first row of help_questions whose question, stripped
\* and casefolded, equals the stripped and casefolded text, if there is one,
\* also when an earlier row only contains the text; else the first row whose
\* question contains it; else None
C31_ExactThenContaining ==
    applied.fn = "get_answer" =>
        LET text == lower(strip(applied.args[1]))
            rows == help_questions_table
            stored(i) == lower(strip(rows[i].question))
            equal == {i \in 1..Len(rows) : stored(i) = text}
            containing == {i \in 1..Len(rows) : contains(stored(i), text)}
        IN  IF text = <<>> THEN applied.result = Nothing
            ELSE IF equal # {} THEN applied.result = Some(rows[SetMin(equal)])
            ELSE IF containing # {} THEN applied.result = Some(rows[SetMin(containing)])
            ELSE applied.result = Nothing

\* get_answer(" КРЕДИТ ") returns the second row, "Кредит", although the
\* first row, "Как взять кредит", contains the text
C31_ExactAfterContaining ==
    /\ applied.fn = "get_answer"
    /\ applied.args[1] = LOOKUP_INPUT.upper
    /\ contains(lower(help_questions_table[1].question), lower(strip(applied.args[1])))
    /\ applied.result = Some(help_questions_table[2])

\* the rows of table users with this chat id
profiles_of(rows, chat_id) == {i \in 1..Len(rows) : rows[i].chat_id = chat_id}

\* C32: table users never holds two rows with one chat id or one id.  A call
\* save_user(name, age, city, chat_id) leaves exactly one row with the chat
\* id, which holds name, age and city; when a row with the chat id existed,
\* it is that row, no row is added and its id, unchanged, is returned, and
\* else one row is added and its new id is returned; the rows of other chat
\* ids are unchanged
C32_UpsertByChatId ==
    /\ [](\A i, j \in 1..Len(users) :
             i # j => users[i].chat_id # users[j].chat_id /\ users[i].id # users[j].id)
    /\ [][(applied'.fn = "save_user" /\ (applied' # applied \/ users' # users)) =>
             LET chat_id == applied'.args[4]
                 old == profiles_of(users, chat_id)
                 new == profiles_of(users', chat_id)
             IN  /\ Cardinality(new) = 1
                 /\ \A i \in new :
                       /\ users'[i].name = applied'.args[1]
                       /\ users'[i].age = applied'.args[2]
                       /\ users'[i].city = applied'.args[3]
                       /\ users'[i].id = applied'.result
                 /\ old # {} =>
                       /\ Len(users') = Len(users)
                       /\ new = old
                       /\ \A i \in old : users'[i].id = users[i].id
                 /\ old = {} =>
                       /\ Len(users') = Len(users) + 1
                       /\ \A i \in 1..Len(users) : users[i].id # applied'.result
                 /\ \A i \in 1..Len(users) :
                       users[i].chat_id # chat_id => users'[i] = users[i]]_vars

\* the profile of chat 1, stored before the bot started, has been
\* overwritten by a call that returned its id 1, after the profiles of
\* chats 3 and 2 were inserted in this order
C32_Overwritten ==
    /\ applied.fn = "save_user"
    /\ applied.args = <<ONBOARDING_INPUT.name, ONBOARDING_INPUT.age,
                        ONBOARDING_INPUT.city, 1>>
    /\ applied.result = initial_users[1].id
    /\ Len(users) = 3
    /\ users[1].name = ONBOARDING_INPUT.name
    /\ users[1].name # initial_users[1].name
    /\ users[2].chat_id = 3
    /\ users[3].chat_id = 2

(***************************************************************************)
(* Feedback presses: chat 1, whose user has registered, and chat 2, whose  *)
(* user has not, get answers in the AI dialogue and press the feedback     *)
(* buttons, under every environment.                                       *)
(***************************************************************************)
FeedbackUpdates ==
    {Button(1, DATA.ask_ai), Text(1, INPUT.question), Text(1, INPUT.canned),
     Text(1, INPUT.stop), Button(1, DATA.feedback_like),
     Button(1, DATA.feedback_dislike),
     Button(2, DATA.ask_ai), Text(2, INPUT.canned), Button(2, DATA.feedback_like)}

NextFeedback == NextOver(FeedbackUpdates, MaxPresses, {REPLY.no_data}, Envs)

SpecFeedback == Init /\ [][NextFeedback]_vars

\* C33: after a run of handle_feedback for a like or dislike press that
\* returns, the last_feedback of the session of the presser is empty, whether
\* a row was saved or not; a step adds at most one row to table feedback,
\* only in a run of handle_feedback, with the question and answer of the
\* last_feedback the session held before the step, and leaves that
\* last_feedback empty, so that a row is saved at most once for an answer
C33_FeedbackReadAndClear ==
    /\ []((/\ last.handler = "handle_feedback"
           /\ last.branch \in {"feedback", "feedback_no_entry"}
           /\ ~last.raised
           /\ ai_sessions[last.key] # Nothing) =>
              ai_sessions[last.key][1].last_feedback = Nothing)
    /\ [][feedback' # feedback =>
             /\ last'.handler = "handle_feedback"
             /\ Len(feedback') = Len(feedback) + 1
             /\ SubSeq(feedback', 1, Len(feedback)) = feedback
             /\ ai_sessions[last'.key] # Nothing
             /\ ai_sessions[last'.key][1].last_feedback # Nothing
             /\ feedback'[Len(feedback')].question
                    = ai_sessions[last'.key][1].last_feedback[1].question
             /\ feedback'[Len(feedback')].answer
                    = ai_sessions[last'.key][1].last_feedback[1].answer
             /\ ai_sessions'[last'.key][1].last_feedback = Nothing]_vars

\* the fourth update is a second press for the same answer: the first press
\* saved a row, the second finds no entry and saves nothing
C33_SecondPressSavesNothing ==
    /\ last.handler = "handle_feedback"
    /\ last.branch = "feedback_no_entry"
    /\ last.seq = 4
    /\ ~last.raised
    /\ last.before.feedback = feedback
    /\ Len(feedback) = 1

\* the rows of cars with this category, in their order
rows_of_category(cars, category) == SelectSeq(cars, LAMBDA x : x.category = category)

\* for each catalog, the digest names every category of the catalog once and
\* lists under it the first 3 of its rows, or all when there are fewer, in
\* catalog order
DigestCapped ==
    \A cars \in Catalogs :
        LET digest == prompt_catalog_of(cars)
        IN  /\ {digest[n].category : n \in 1..Len(digest)}
                   = {cars[i].category : i \in 1..Len(cars)}
            /\ \A n, m \in 1..Len(digest) :
                   n # m => digest[n].category # digest[m].category
            /\ \A n \in 1..Len(digest) :
                   LET rows == rows_of_category(cars, digest[n].category)
                       listed == digest[n].cars
                   IN  /\ Len(listed) <= 3
                       /\ Len(listed) = 3 \/ Len(listed) = Len(rows)
                       /\ \A k \in 1..Len(listed) :
                              listed[k] = [brand |-> rows[k].brand, model |-> rows[k].model,
                                           price |-> rows[k].price, specs |-> rows[k].specs]

\* C34: the car digest built from a catalog lists, per category, the first 3
\* records in catalog order and no more.  The prompt of a question that
\* waits for the AI backend has the digest of get_all_cars; it has a
\* transcript exactly when the history of the session is not empty, and the
\* transcript is that history; its profile line is the "unknown, first
\* contact" line exactly when, before the run, no profile was cached for the
\* chat and table users had no row for it, and else it names the profile
C34_PromptParts ==
    /\ DigestCapped
    /\ \A t \in tasks :
          LET k == t.key
              session == ai_sessions[k]
              history == IF session = Nothing THEN <<>> ELSE session[1].history
          IN  (last.seq = t.seq /\ ~t.detached) =>
                  /\ t.prompt.catalog = prompt_catalog_of(get_all_cars)
                  /\ t.prompt.question = t.text
                  /\ t.prompt.history = history
                  /\ (t.prompt.history # <<>>) <=> (history # <<>>)
                  /\ (t.prompt.profile = <<>>) <=>
                         (/\ ~Truthy(last.before.user_info[k])
                          /\ get_user_by_chat_id(last.before.users, k) = Nothing)
                  /\ t.prompt.profile # <<>> =>
                         /\ Truthy(user_info[k])
                         /\ t.prompt.profile[1] = user_info[k][1].name

\* a question of chat 2, whose user is unknown, waits for the AI backend:
\* its prompt has the "unknown" profile line and a transcript of one entry;
\* one of the catalogs has a category of more than 3 cars
C34_UnknownUserPrompt ==
    /\ \E t \in tasks :
          /\ t.key = 2
          /\ last.seq = t.seq
          /\ t.prompt.profile = <<>>
          /\ Len(t.prompt.history) = 1
    /\ \E cars \in Catalogs :
          \E i \in 1..Len(cars) : Len(rows_of_category(cars, cars[i].category)) > 3

\* C35: a chat in state "ask_ai_confirm" has a session whose
\* last_suggestions holds at least 1 and at most 5 records
C35_ConfirmHasSuggestions ==
    \A k \in Keys :
        user_state[k] = "ask_ai_confirm" =>
            /\ ai_sessions[k] # Nothing
            /\ Len(ai_sessions[k][1].last_suggestions) >= 1
            /\ Len(ai_sessions[k][1].last_suggestions) <= MAX_MATCHES

\* chat 1 is in the confirmation with two suggestions after a menu selection
\* made in that state
C35_ConfirmAfterBrowse ==
    /\ user_state[1] = "ask_ai_confirm"
    /\ last.handler = "handle_category"
    /\ last.key = 1
    /\ last.before.user_state[1] = "ask_ai_confirm"
    /\ Len(ai_sessions[1][1].last_suggestions) = 2

\* C36: a run of handle_message for a chat whose state is None leaves the
\* dictionaries and the tables as they were, sends nothing, makes no catalog
\* query, canned-answer lookup or write, does not wait for the AI backend,
\* and returns
C36_IdleTextIgnored ==
    (/\ last.handler = "handle_message"
     /\ last.phase = "run"
     /\ last.before.user_state[last.key] = None) =>
        /\ Store = last.before
        /\ last.out = <<>>
        /\ last.calls = <<>>
        /\ ~last.suspended
        /\ ~last.raised
        /\ \A t \in tasks : t.seq # last.seq
        /\ \A w \in workers \cup returned : w.seq # last.seq

\* the third update is a question of chat 1 sent after the AI dialogue was
\* left with "стоп": the chat is in no flow and nothing happens
C36_QuestionAfterStop ==
    /\ last.handler = "handle_message"
    /\ last.phase = "run"
    /\ last.seq = 3
    /\ last.key = 1
    /\ last.text = INPUT.question
    /\ last.before.user_state[1] = None
    /\ last.out = <<>>
    /\ Len(ai_dialogs) = 1

(***************************************************************************)
(* A group chat: user 1 presses the menu buttons and writes in chat 2.     *)
(***************************************************************************)
GroupUpdates ==
    {Update("callback", 2, 1, <<>>, DATA.search_name),
     Update("callback", 2, 1, <<>>, DATA.search_price),
     Update("callback", 2, 1, <<>>, DATA.filter),
     Update("callback", 2, 1, <<>>, DATA.ask_ai),
     Update("text", 2, 1, INPUT.question, <<>>),
     Button(1, DATA.ask_ai),
     Text(1, INPUT.question)}

NextGroup == NextOver(GroupUpdates, MaxUpdates, {REPLY.no_data}, {NominalEnv})

SpecGroup == Init /\ [][NextGroup]_vars

\* C37: when handle_category has handled the selection of a search, of the
\* filter or of the AI dialogue and returned, the state (and the empty filter
\* draft, the fresh AI session) it wrote is stored under the identifier of
\* the chat of the update, the key under which handle_message looks up the
\* state of the next text of that chat
C37_SelectionKeyedByChat ==
    [][(/\ queue # <<>>
        /\ last'.phase = "run"
        /\ last'.seq = Head(queue).seq
        /\ last'.handler = "handle_category"
        /\ last'.branch \in {"search_name", "search_price", "filter", "ask_ai"}
        /\ ~last'.raised) =>
           LET chat == Head(queue).upd.chat
               branch == last'.branch
           IN  /\ user_state'[chat] =
                      (CASE branch = "search_name" -> "search_by_name"
                         [] branch = "search_price" -> "search_by_price"
                         [] branch = "filter" -> "filter_brand"
                         [] OTHER -> "ask_ai")
               /\ branch = "filter" => filter_info'[chat] = Some(EmptyDict)
               /\ branch = "ask_ai" => ai_sessions'[chat] = Some(new_session)]_vars

(***************************************************************************)
(* /start sent in the middle of a flow: chat 1, whose user is registered,  *)
(* in the filter or in the AI dialogue; chat 2, whose user is not, before  *)
(* and in the onboarding.                                                  *)
(***************************************************************************)
StartUpdates ==
    {Command(1), Command(2),
     Button(1, DATA.filter), Text(1, FILTER_INPUT.brand),
     Button(1, DATA.ask_ai), Text(1, INPUT.question),
     Button(2, DATA.ask_ai), Text(2, ONBOARDING_INPUT.name)}

NextStart == NextOver(StartUpdates, MaxUpdates, {REPLY.no_data}, Envs)

SpecStart == Init /\ [][NextStart]_vars

\* C38: after a run of start that returned, whatever the state of the chat
\* was: when table users held a row of the chat, the state of the chat is
\* None and user_info holds id, name, age and city of that row; when it held
\* none, the state is "ask_name" and user_info is as before.  In both cases
\* filter_info and ai_sessions, the entries of the other chats and the tables
\* are as before the run
C38_StartByPersistedProfile ==
    (last.handler = "start" /\ last.phase = "run" /\ ~last.raised) =>
        LET k == last.key
            b == last.before
            rows == profiles_of(b.users, k)
        IN  /\ rows # {} =>
                   /\ user_state[k] = None
                   /\ \E i \in rows :
                          user_info[k] = Some([id |-> b.users[i].id,
                                               name |-> b.users[i].name,
                                               age |-> b.users[i].age,
                                               city |-> b.users[i].city])
            /\ rows = {} =>
                   /\ user_state[k] = "ask_name"
                   /\ user_info[k] = b.user_info[k]
            /\ filter_info = b.filter_info
            /\ ai_sessions = b.ai_sessions
            /\ \A o \in Keys \ {k} :
                   user_state[o] = b.user_state[o] /\ user_info[o] = b.user_info[o]
            /\ users = b.users /\ feedback = b.feedback /\ ai_dialogs = b.ai_dialogs

\* /start of the registered chat 1 sent in the AI dialogue after an answered
\* question: the chat is idle, its session still holds the two entries
C38_StartInAiDialogue ==
    /\ last.handler = "start" /\ last.phase = "run" /\ ~last.raised
    /\ last.key = 1
    /\ last.before.user_state[1] = "ask_ai"
    /\ user_state[1] = None
    /\ ai_sessions[1] # Nothing
    /\ Len(ai_sessions[1][1].history) = 2
    /\ Truthy(user_info[1])

\* the positions of the answers in a log of history appends
answers_in(log) == {i \in 1..Len(log) : log[i][1] = "assistant"}

\* C39: a run of handle_feedback adds at most one row to table feedback, and
\* the row holds the last answer appended to the history of the presser's
\* session and the question appended before it; when the presser has no
\* session, or no answer was appended since the session was created or
\* reset, no row is added.  The press handled next after a run for the stop
\* word or for the "ask AI" button of the same user, which returned, adds no
\* row
C39_RowOfLatestAnswer ==
    /\ [](last.handler = "handle_feedback" =>
              LET k == last.key
                  b == last.before
                  log == b.hist_log[k]
                  at == SetMax(answers_in(log))
              IN  /\ feedback # b.feedback =>
                         /\ feedback = Append(b.feedback, feedback[Len(feedback)])
                         /\ b.ai_sessions[k] # Nothing
                         /\ answers_in(log) # {}
                         /\ at > 1
                         /\ log[at - 1][1] = "user"
                         /\ feedback[Len(feedback)].question = log[at - 1][2]
                         /\ feedback[Len(feedback)].answer = log[at][2]
                  /\ (b.ai_sessions[k] = Nothing \/ answers_in(log) = {}) =>
                         feedback = b.feedback)
    /\ [][(/\ last'.handler = "handle_feedback"
           /\ last'.seq = last.seq + 1
           /\ last'.key = last.key
           /\ last.branch \in {"ask_ai", "ask_ai_stop", "confirm_stop"}
           /\ ~last.raised) =>
              feedback' = feedback]_vars

\* the fourth update is a like pressed after a model answer and a canned
\* answer: the row holds the canned question and its answer
C39_LikeAfterTwoAnswers ==
    /\ last.handler = "handle_feedback"
    /\ last.branch = "feedback"
    /\ last.seq = 4
    /\ ~last.raised
    /\ Len(last.before.hist_log[1]) = 4
    /\ last.before.hist_log[1][1] = <<"user", INPUT.question>>
    /\ Len(feedback) = 1
    /\ feedback[1].question = INPUT.canned
    /\ feedback[1].answer = last.before.hist_log[1][4][2]
    /\ feedback[1].liked = 1

(***************************************************************************)
(* The AI dialogue of chat 1 continued after four questions answered from  *)
(* the canned answers: the history holds eight entries, so that the next   *)
(* turns fill the deque and turn it over, under every environment.         *)
(***************************************************************************)
InitTurns ==
    LET answer == get_answer(INPUT.canned)[1].answer
        turn == <<<<"user", INPUT.canned>>, <<"assistant", answer>>>>
        entries == turn \o turn \o turn \o turn
    IN  /\ user_state = [k \in Keys |-> IF k = 1 THEN "ask_ai" ELSE None]
        /\ user_info = [k \in Keys |-> Nothing]
        /\ filter_info = [k \in Keys |-> Nothing]
        /\ ai_sessions =
               [k \in Keys |->
                   IF k = 1
                   THEN Some([history |-> entries, last_suggestions |-> <<>>,
                              last_feedback |->
                                  Some([question |-> INPUT.canned, answer |-> answer])])
                   ELSE Nothing]
        /\ help_messages = [k \in Keys |-> <<>>]
        /\ users = initial_users
        /\ feedback = <<>>
        /\ ai_dialogs = <<>>
        /\ queue = <<>>
        /\ tasks = {}
        /\ workers = {}
        /\ returned = {}
        /\ arrived = 0
        /\ last = NoRun
        /\ hist_log = [k \in Keys |-> IF k = 1 THEN entries ELSE <<>>]
        /\ extraction = NoExtraction
        /\ applied = NoCall

NextTurns == NextOver(HistoryUpdates, MaxUpdates, {REPLY.no_data}, Envs)

SpecTurns == InitTurns /\ [][NextTurns]_vars

\* the dictionaries and tables of InitTurns are those the long dialogue of
\* SpecHistory reaches with the "ask AI" button and four canned questions
TurnsStartReached ==
    /\ arrived = 5 /\ queue = <<>> /\ tasks = {}
    /\ user_state = [k \in Keys |-> IF k = 1 THEN "ask_ai" ELSE None]
    /\ user_info = [k \in Keys |-> Nothing]
    /\ Len(hist_log[1]) = 8
    /\ \A i \in 1..8 : hist_log[1][i][2] # INPUT.question
    /\ ai_sessions[1][1].history = hist_log[1]
    /\ ai_sessions[1][1].last_suggestions = <<>>
    /\ ai_sessions[1][1].last_feedback =
           Some([question |-> INPUT.canned, answer |-> hist_log[1][8][2]])
    /\ ai_dialogs = <<>> /\ feedback = <<>> /\ users = initial_users

\* the log of appends of chat k in store b; none without a session
log_of(b, k) == IF b.ai_sessions[k] = Nothing THEN <<>> ELSE b.hist_log[k]

\* C40: a run of handle_message for a question in the AI dialogue has
\* appended ("user", question) to the history, also when it is left by an
\* exception or answers nothing yet; the prompt of the AI call it awaits holds
\* the history with that entry last.  A canned turn has appended ("user",
\* question) and ("assistant", answer), also when sending the answer raised.
\* The run after the await finds the question as the last entry and appends
\* ("assistant", response), also when sending the response raised.  The
\* history of a session is the last HISTORY_MAXLEN entries appended
C40_TurnAppendsUserThenAssistant ==
    /\ \A t \in tasks :
           /\ t.prompt.history # <<>>
           /\ t.prompt.history[Len(t.prompt.history)] = <<"user", t.text>>
           /\ t.prompt.question = t.text
           /\ ~t.detached => t.prompt.history = ai_sessions[t.key][1].history
    /\ \A k \in Keys :
           ai_sessions[k] # Nothing =>
               LET history == ai_sessions[k][1].history
                   n == Len(hist_log[k])
               IN  history = SubSeq(hist_log[k],
                                    n - (IF n < HISTORY_MAXLEN THEN n ELSE HISTORY_MAXLEN) + 1,
                                    n)
    /\ (last.handler = "handle_message" /\ last.branch = "ask_ai_question") =>
           /\ hist_log[last.key] =
                  Append(log_of(last.before, last.key), <<"user", last.text>>)
           /\ last.calls # <<>> /\ last.calls[1].tag = "get_answer"
    /\ (last.handler = "handle_message" /\ last.branch = "ask_ai_canned") =>
           /\ Len(hist_log[last.key]) = Len(log_of(last.before, last.key)) + 2
           /\ SubSeq(hist_log[last.key], 1, Len(hist_log[last.key]) - 2)
                  = log_of(last.before, last.key)
           /\ hist_log[last.key][Len(hist_log[last.key]) - 1] = <<"user", last.text>>
           /\ hist_log[last.key][Len(hist_log[last.key])][1] = "assistant"
           /\ \A i \in 1..Len(last.out) :
                  last.out[i].tag = "answer" =>
                      last.out[i].text = hist_log[last.key][Len(hist_log[last.key])][2]
    /\ (last.handler = "handle_message" /\ last.branch = "ask_ai_resume") =>
           LET before == last.before.hist_log[last.key]
           IN  /\ before # <<>>
               /\ before[Len(before)] = <<"user", last.text>>
               /\ hist_log[last.key] = Append(before, <<"assistant", last.response>>)
               /\ \A i \in 1..Len(last.out) :
                      last.out[i].tag = "answer" => last.out[i].text = last.response

\* the third update is a question answered by the model when the deque is
\* full: fourteen entries were appended, the history holds the last ten and
\* ends with the question and its answer
C40_TurnOnFullHistory ==
    /\ last.handler = "handle_message"
    /\ last.branch = "ask_ai_resume"
    /\ last.phase = "return"
    /\ last.seq = 3
    /\ Len(hist_log[1]) = 14
    /\ Len(last.before.ai_sessions[1][1].history) = HISTORY_MAXLEN
    /\ Len(ai_sessions[1][1].history) = HISTORY_MAXLEN
    /\ ai_sessions[1][1].history[HISTORY_MAXLEN - 1] = <<"user", INPUT.question>>
    /\ ai_sessions[1][1].history[HISTORY_MAXLEN] = <<"assistant", REPLY.no_data>>

====
